---- MODULE Spec2Model ----
(***************************************************************************)
(* Model of the readiness checker of AudioScrobeAI                        *)
(* (src/database/health_check.py), of the module start-up in src/main.py  *)
(* and of the request handlers that update and delete rows                *)
(* (src/routers).  The store (PostgreSQL), the process environment, the   *)
(* disk and the migration subprocess are the external state; every store  *)
(* operation may fail with a store error, and the migration tool may exit *)
(* with any of its outcomes.                                              *)
(***************************************************************************)
EXTENDS Integers, Sequences, FiniteSets, TLC

VARIABLES
    environ,          \* os.environ restricted to the keys the checker reads
    store0,           \* the store as it was when the process started
    ready,            \* ensure_application_ready has returned normally
    tables,           \* names of the tables present in the store
    users,            \* rows of the users table
    pc,               \* position of the process
    caller,           \* who called perform_full_health_check
    env_check,        \* ensure_application_ready: env_check
    settings_check,   \* ensure_application_ready: settings_check
    connection_check, \* ensure_database_ready: connection_check
    tables_check,     \* ensure_database_ready: tables_check
    migration_result, \* ensure_database_ready: migration_result
    final_check,      \* ensure_database_ready: final_check
    db_ready_result,  \* ensure_application_ready: db_ready_result
    proc,             \* outcome of the last migration subprocess
    checks,           \* perform_full_health_check: results["checks"]
    overall_status,   \* perform_full_health_check: results["overall_status"]
    raised,           \* the exception that aborted the process, or "none"
    app,              \* the FastAPI application object exists
    stages,           \* stages of ensure_application_ready entered, in order
    store_ops,        \* operations sent to the store or the migration tool
    requests,         \* health requests served so far
    last_outcome,     \* how the last operation sent to the store ended
    response,         \* what the last request handler returned or raised
    sa_calls,         \* results of the consecutive superadmin checks
    audio_files,      \* rows of the audio_files table
    ai_models,        \* rows of the ai_models table
    transcriptions,   \* rows of the transcriptions table
    translations,     \* rows of the translations table
    summaries,        \* rows of the summaries table
    next_id,          \* the next value of each table's id sequence
    disk,             \* paths of the files present on disk
    before,           \* the rows and the disk when the last request began
    request,          \* the last request: its handler and its input
    workers           \* the concurrent calls: position, input and result

vars == <<environ, store0, ready, tables, users, pc, caller, env_check,
          settings_check, connection_check, tables_check, migration_result,
          final_check, db_ready_result, proc, checks, overall_status, raised,
          app, stages, store_ops, requests, last_outcome, response,
          sa_calls, audio_files, ai_models, transcriptions, translations,
          summaries, next_id, disk, before, request, workers>>

store_vars == <<tables, users>>

req_vars == <<response, sa_calls, workers>>

crud_vars == <<audio_files, ai_models, transcriptions, translations,
               summaries, next_id, disk, before, request>>

ear_vars == <<env_check, settings_check, db_ready_result>>

db_vars == <<connection_check, tables_check, migration_result, final_check>>

(***************************************************************************)
(* Bounds                                                                  *)
(***************************************************************************)
\* number of environment keys that differ from a valid configuration
MaxDefects == 1
\* number of rows of the users table at process start
MaxUsers == 1
\* number of health requests served after start-up
MaxRequests == 1

(***************************************************************************)
(* The process environment                                                 *)
(***************************************************************************)
required_env_vars ==
    <<"POSTGRES_DB", "POSTGRES_USER", "POSTGRES_PASSWORD", "DB_HOST",
      "SECRET_KEY", "DEBUG", "APP_ENV">>

RequiredVarSet == {required_env_vars[i] : i \in DOMAIN required_env_vars}

MinSecretLen == 32

Key32 == "0123456789abcdef0123456789abcdef"

Key31 == "0123456789abcdef0123456789abcde"

\* a value of a valid configuration
GoodValue(var) ==
    CASE var = "SECRET_KEY" -> Key32
      [] var = "DEBUG" -> "true"
      [] var = "APP_ENV" -> "development"
      [] OTHER -> "audioscrobe"

NotSet == "<not set>"

\* the other values a key is given here; NotSet leaves the key out of environ
OtherValues(var) ==
    CASE var = "SECRET_KEY" -> {NotSet, "", Key31}
      [] var = "DEBUG" -> {NotSet, "FALSE", "yes"}
      [] var = "APP_ENV" -> {NotSet, "Production", "staging"}
      [] OTHER -> {NotSet, "  "}

AllOtherValues == UNION {OtherValues(v) : v \in RequiredVarSet}

EnvWith(S, b) ==
    [v \in RequiredVarSet \ {u \in S : b[u] = NotSet} |->
        IF v \in S THEN b[v] ELSE GoodValue(v)]

Environments ==
    UNION {{EnvWith(S, b) :
              b \in {x \in [S -> AllOtherValues] :
                        \A v \in S : x[v] \in OtherValues(v)}} :
           S \in {T \in SUBSET RequiredVarSet : Cardinality(T) <= MaxDefects}}

\* os.getenv(var): None is modelled by NotSet
getenv(var, default) ==
    IF var \in DOMAIN environ THEN environ[var] ELSE default

\* str.strip on the values of the environment
strip(s) == IF s \in {"", " ", "  "} THEN "" ELSE s

\* str.lower on the values of the environment
lower(s) ==
    CASE s = "FALSE" -> "false"
      [] s = "Production" -> "production"
      [] OTHER -> s

(***************************************************************************)
(* Results                                                                 *)
(***************************************************************************)
Status == {"healthy", "warning", "unhealthy"}

NoResult == [status |-> "none"]

\* check_environment_variables that accepts a blank value
check_environment_variables_IgnoresBlank ==
    LET missing_vars ==
            SelectSeq(required_env_vars,
                      LAMBDA var : getenv(var, NotSet) = NotSet)
    IN  [status |-> IF missing_vars # <<>> THEN "unhealthy" ELSE "healthy",
         missing_vars |-> missing_vars,
         empty_vars |-> <<>>]

check_environment_variables ==
    LET missing_vars ==
            SelectSeq(required_env_vars,
                      LAMBDA var : getenv(var, NotSet) = NotSet)
        empty_vars ==
            SelectSeq(required_env_vars,
                      LAMBDA var : /\ getenv(var, NotSet) # NotSet
                                   /\ strip(getenv(var, NotSet)) = "")
    IN  [status |-> IF missing_vars # <<>> \/ empty_vars # <<>>
                    THEN "unhealthy" ELSE "healthy",
         missing_vars |-> missing_vars,
         empty_vars |-> empty_vars]

\* check_application_settings that fails hard on a short secret key
check_application_settings_FailsHard ==
    LET app_env == lower(getenv("APP_ENV", ""))
        secret_key == getenv("SECRET_KEY", "")
        debug == lower(getenv("DEBUG", ""))
        issues ==
            (IF app_env \notin {"development", "production", "testing"}
             THEN <<"APP_ENV">> ELSE <<>>)
            \o (IF Len(secret_key) < MinSecretLen
                THEN <<"SECRET_KEY">> ELSE <<>>)
            \o (IF debug \notin {"true", "false"}
                THEN <<"DEBUG">> ELSE <<>>)
    IN  [status |-> CASE issues = <<>> -> "healthy"
                      [] Len(secret_key) < MinSecretLen -> "unhealthy"
                      [] OTHER -> "warning",
         issues |-> issues]

check_application_settings ==
    LET app_env == lower(getenv("APP_ENV", ""))
        secret_key == getenv("SECRET_KEY", "")
        debug == lower(getenv("DEBUG", ""))
        issues ==
            (IF app_env \notin {"development", "production", "testing"}
             THEN <<"APP_ENV">> ELSE <<>>)
            \o (IF Len(secret_key) < MinSecretLen
                THEN <<"SECRET_KEY">> ELSE <<>>)
            \o (IF debug \notin {"true", "false"}
                THEN <<"DEBUG">> ELSE <<>>)
    IN  [status |-> IF issues = <<>> THEN "healthy" ELSE "warning",
         issues |-> issues]

(***************************************************************************)
(* The store                                                               *)
(***************************************************************************)
\* Base.__subclasses__() in the import order of src/models/__init__.py
expected_tables ==
    <<"users", "ai_models", "audio_files", "transcriptions", "translations",
      "summaries">>

ExpectedSet == {expected_tables[i] : i \in DOMAIN expected_tables}

\* tables of the store that no model declares
ExtraTables == {"alembic_version"}

Usernames == {"superadmin", "alice"}

\* bcrypt.hash, up to the salt
hash_password(password) == <<"bcrypt", password>>

UserRows ==
    [id : 1..MaxUsers, username : Usernames,
     password_hash : {hash_password("secret")}, is_admin : BOOLEAN]

\* the primary key and the unique index of users.username
UsersConstraint(rows) ==
    \A u, v \in rows : (u.id = v.id \/ u.username = v.username) => u = v

\* the tables the foreign keys of a table refer to
References(table) ==
    CASE table = "audio_files" -> {"users"}
      [] table = "transcriptions" -> {"audio_files", "ai_models"}
      [] table = "translations" -> {"transcriptions", "ai_models"}
      [] table = "summaries" -> {"translations", "ai_models"}
      [] OTHER -> {}

\* a table exists only together with the tables its foreign keys refer to
InitialTables ==
    {S \in SUBSET (ExpectedSet \cup ExtraTables) :
        \A t \in S : References(t) \subseteq S}

InitialUsers(tbls) ==
    IF "users" \notin tbls THEN {{}}
    ELSE {rows \in SUBSET UserRows :
            /\ UsersConstraint(rows)
            /\ {u.id : u \in rows} = 1..Cardinality(rows)}

\* the outcomes of one round trip to the store
StoreOutcomes == {"ok", "error"}

\* the outcomes of the test query SELECT 1
QueryOutcomes == StoreOutcomes \cup {"unexpected"}

check_database_connection(outcome) ==
    CASE outcome = "ok" ->
            [status |-> "healthy", connection_test |-> "passed",
             error |-> FALSE]
      [] outcome = "unexpected" ->
            [status |-> "unhealthy", connection_test |-> "failed",
             error |-> FALSE]
      [] OTHER ->
            [status |-> "unhealthy", connection_test |-> "failed",
             error |-> TRUE]

\* check_database_tables that also warns about tables no model declares
check_database_tables_ExtrasWarn(outcome) ==
    IF outcome = "ok"
    THEN LET existing_tables == tables
             missing_tables ==
                 SelectSeq(expected_tables,
                           LAMBDA table : table \notin existing_tables)
             extra_tables == existing_tables \ ExpectedSet
         IN  [status |-> IF missing_tables = <<>> /\ extra_tables = {}
                         THEN "healthy" ELSE "warning",
              existing_tables |-> existing_tables,
              missing_tables |-> missing_tables,
              extra_tables |-> extra_tables,
              error |-> FALSE]
    ELSE [status |-> "unhealthy", existing_tables |-> {},
          missing_tables |-> <<>>, extra_tables |-> {}, error |-> TRUE]

check_database_tables(outcome) ==
    IF outcome = "ok"
    THEN LET existing_tables == tables
             missing_tables ==
                 SelectSeq(expected_tables,
                           LAMBDA table : table \notin existing_tables)
             extra_tables == existing_tables \ ExpectedSet
         IN  [status |-> IF missing_tables = <<>> THEN "healthy"
                         ELSE "warning",
              existing_tables |-> existing_tables,
              missing_tables |-> missing_tables,
              extra_tables |-> extra_tables,
              error |-> FALSE]
    ELSE [status |-> "unhealthy", existing_tables |-> {},
          missing_tables |-> <<>>, extra_tables |-> {}, error |-> TRUE]

\* check_database_permissions that downgrades a store error to a warning
check_database_permissions_Warns(outcome) ==
    IF outcome = "ok"
    THEN [status |-> "healthy", permissions_test |-> "passed",
          error |-> FALSE]
    ELSE [status |-> "warning", permissions_test |-> "failed",
          error |-> FALSE]

\* a role without the privilege gets a store error like any other
check_database_permissions(outcome) ==
    IF outcome = "ok"
    THEN [status |-> "healthy", permissions_test |-> "passed",
          error |-> FALSE]
    ELSE [status |-> "unhealthy", permissions_test |-> "failed",
          error |-> TRUE]

NextUserId == IF users = {} THEN 1
              ELSE 1 + CHOOSE m \in {u.id : u \in users} :
                            \A u \in users : u.id <= m

new_superadmin ==
    [id |-> NextUserId, username |-> "superadmin",
     password_hash |-> hash_password("superadmin"), is_admin |-> TRUE]

\* the rows the lookup of check_and_create_superadmin matches
SuperadminRows == {u \in users : u.username = "superadmin" /\ u.is_admin}

\* the result of check_and_create_superadmin; outcome is "ok", or the store
\* fails at the lookup ("error") or at the commit ("commit_error")
superadmin_result(outcome) ==
    CASE outcome = "error" \/ "users" \notin tables ->
            [status |-> "unhealthy", superadmin_exists |-> FALSE,
             action_taken |-> "failed", error |-> TRUE]
      [] SuperadminRows # {} ->
            [status |-> "healthy", superadmin_exists |-> TRUE,
             action_taken |-> "none", error |-> FALSE]
      [] outcome = "commit_error"
         \/ ~UsersConstraint(users \cup {new_superadmin}) ->
            [status |-> "unhealthy", superadmin_exists |-> FALSE,
             action_taken |-> "failed", error |-> TRUE]
      [] OTHER ->
            [status |-> "healthy", superadmin_exists |-> FALSE,
             action_taken |-> "created", error |-> FALSE]

\* check_and_create_superadmin without session.add and session.commit
superadmin_users_Unchanged(outcome) == users

\* the users table after check_and_create_superadmin
superadmin_users(outcome) ==
    IF superadmin_result(outcome).action_taken = "created"
    THEN users \cup {new_superadmin}
    ELSE users

\* the store operations check_and_create_superadmin sends
superadmin_ops(outcome) ==
    IF outcome = "error" \/ "users" \notin tables \/ SuperadminRows # {}
    THEN <<"query_user">>
    ELSE <<"query_user", "insert_user">>

\* how the store operations of check_and_create_superadmin ended: a commit
\* that is never attempted does not fail
superadmin_outcome(outcome) ==
    IF outcome = "commit_error" /\ Len(superadmin_ops(outcome)) = 1
    THEN "ok"
    ELSE outcome

(***************************************************************************)
(* The migration tool                                                      *)
(***************************************************************************)
\* what subprocess.run(alembic upgrade head) can do
ProcOutcomes ==
    {[kind |-> "exit", returncode |-> 0], [kind |-> "exit", returncode |-> 1],
     [kind |-> "timeout", returncode |-> -1],
     [kind |-> "exception", returncode |-> -1]}

NoProc == [kind |-> "none", returncode |-> -1]

\* the sets of tables a run of the tool may leave created
MigrationEffects == {{}, {"users"}, ExpectedSet \cup ExtraTables}

\* run_database_migrations without the handler of subprocess.TimeoutExpired
run_database_migrations_NoTimeoutHandler(p) ==
    CASE p.kind = "exit" /\ p.returncode = 0 ->
            [status |-> "healthy", error |-> "none"]
      [] p.kind = "exit" ->
            [status |-> "unhealthy", error |-> "error_output"]
      [] OTHER ->
            [status |-> "unhealthy", error |-> "exception"]

\* run_database_migrations that does not look at the return code
run_database_migrations_IgnoresExit(p) ==
    CASE p.kind = "exit" ->
            [status |-> "healthy", error |-> "none"]
      [] p.kind = "timeout" ->
            [status |-> "unhealthy", error |-> "timeout"]
      [] OTHER ->
            [status |-> "unhealthy", error |-> "exception"]

run_database_migrations(p) ==
    CASE p.kind = "exit" /\ p.returncode = 0 ->
            [status |-> "healthy", error |-> "none"]
      [] p.kind = "exit" ->
            [status |-> "unhealthy", error |-> "error_output"]
      [] p.kind = "timeout" ->
            [status |-> "unhealthy", error |-> "timeout"]
      [] OTHER ->
            [status |-> "unhealthy", error |-> "exception"]

(***************************************************************************)
(* perform_full_health_check: the fold of the statuses                     *)
(***************************************************************************)
\* the keys of results["checks"] in insertion order
check_names ==
    <<"environment", "database_connection", "database_tables",
      "database_permissions", "superadmin_user", "application_settings">>

CheckNameSet == {check_names[i] : i \in DOMAIN check_names}

\* the loop with a break on the first status that is not healthy
RECURSIVE fold_status_FirstNonHealthy(_, _, _)
fold_status_FirstNonHealthy(cs, i, acc) ==
    IF i > Len(check_names) THEN acc
    ELSE LET st == cs[check_names[i]].status
         IN  IF st = "unhealthy" THEN "unhealthy"
             ELSE IF st = "warning" THEN "warning"
                  ELSE fold_status_FirstNonHealthy(cs, i + 1, acc)

\* the loop over checks_dict.items(), from position i with overall status acc
RECURSIVE fold_status(_, _, _)
fold_status(cs, i, acc) ==
    IF i > Len(check_names) THEN acc
    ELSE LET st == cs[check_names[i]].status
         IN  IF st = "unhealthy" THEN "unhealthy"
             ELSE IF st = "warning" /\ acc = "healthy"
                  THEN fold_status(cs, i + 1, "warning")
                  ELSE fold_status(cs, i + 1, acc)

\* check_application_health: the final verdict of the full check
check_application_health == overall_status = "healthy"

(***************************************************************************)
(* Initial state                                                           *)
(***************************************************************************)
NoChecks == [n \in CheckNameSet |-> NoResult]

\* no request has been handled yet
NoResponse == [code |-> 0, detail |-> "none"]

\* the id sequences of the row tables before any insert
FirstIds == [audio_files |-> 1, ai_models |-> 1, transcriptions |-> 1,
             translations |-> 1, summaries |-> 1]

\* no request has begun yet
NoSnapshot == [users |-> {}, audio_files |-> {}, ai_models |-> {},
               transcriptions |-> {}, translations |-> {}, summaries |-> {},
               disk |-> {}]

\* number of processes that serve requests against the one store
MaxWorkers == 2

Workers == 1..MaxWorkers

\* a process that is not inside a call
Idle == [pc |-> "idle", handler |-> "none", name |-> "", seen |-> {},
         outcome |-> "none", result |-> [status |-> "none"]]

\* no request has been received yet
NoRequest == [handler |-> "none", id |-> 0, name |-> ""]

\* the row tables other than users are empty and no file is on disk
NoRows ==
    /\ audio_files = {}
    /\ ai_models = {}
    /\ transcriptions = {}
    /\ translations = {}
    /\ summaries = {}
    /\ next_id = FirstIds
    /\ disk = {}
    /\ before = NoSnapshot
    /\ request = NoRequest

\* nothing has run yet
ProgramInit ==
    /\ env_check = NoResult
    /\ settings_check = NoResult
    /\ connection_check = NoResult
    /\ tables_check = NoResult
    /\ migration_result = NoResult
    /\ final_check = NoResult
    /\ db_ready_result = NoResult
    /\ proc = NoProc
    /\ overall_status = "none"
    /\ raised = "none"
    /\ ready = FALSE
    /\ app = FALSE
    /\ stages = <<>>
    /\ store_ops = <<>>
    /\ requests = 0
    /\ last_outcome = "none"
    /\ response = NoResponse
    /\ sa_calls = <<>>
    /\ workers = [w \in Workers |-> Idle]

Init ==
    /\ environ \in Environments
    /\ tables \in InitialTables
    /\ users \in InitialUsers(tables)
    /\ store0 = [tables |-> tables, users |-> users]
    /\ pc = "boot"
    /\ caller = "none"
    /\ checks = NoChecks
    /\ NoRows
    /\ ProgramInit

(***************************************************************************)
(* ensure_application_ready                                                *)
(***************************************************************************)
\* main.py calls ensure_application_ready()
StartMain ==
    /\ pc = "boot"
    /\ pc' = "ear_env"
    /\ UNCHANGED <<req_vars, crud_vars, environ, store0, ready, store_vars,
                   caller, ear_vars, db_vars, proc, checks, overall_status,
                   raised, app, stages, store_ops, requests, last_outcome>>

\* EnvStage without the raise: an unhealthy environment is only recorded
EnvStage_Continues ==
    /\ pc = "ear_env"
    /\ env_check' = check_environment_variables
    /\ stages' = Append(stages, "environment")
    /\ pc' = "ear_settings"
    /\ UNCHANGED <<req_vars, crud_vars, environ, store0, ready, store_vars,
                   caller, settings_check, db_ready_result, db_vars, proc,
                   checks, overall_status, raised, app, store_ops, requests,
                   last_outcome>>

\* env_check = checker.check_environment_variables(); raise unless healthy
EnvStage ==
    /\ pc = "ear_env"
    /\ env_check' = check_environment_variables
    /\ stages' = Append(stages, "environment")
    /\ IF env_check'.status # "healthy"
       THEN pc' = "aborted" /\ raised' = "environment"
       ELSE pc' = "ear_settings" /\ UNCHANGED raised
    /\ UNCHANGED <<req_vars, crud_vars, environ, store0, ready, store_vars,
                   caller, settings_check, db_ready_result, db_vars, proc,
                   checks, overall_status, app, store_ops, requests,
                   last_outcome>>

\* settings_check = checker.check_application_settings(); raise if unhealthy
SettingsStage ==
    /\ pc = "ear_settings"
    /\ settings_check' = check_application_settings
    /\ stages' = Append(stages, "settings")
    /\ IF settings_check'.status = "unhealthy"
       THEN pc' = "aborted" /\ raised' = "settings"
       ELSE pc' = "db_connect" /\ UNCHANGED raised
    /\ UNCHANGED <<req_vars, crud_vars, environ, store0, ready, store_vars,
                   caller, env_check, db_ready_result, db_vars, proc, checks,
                   overall_status, app, store_ops, requests, last_outcome>>

(***************************************************************************)
(* ensure_database_ready                                                   *)
(***************************************************************************)
\* DbConnection without the early return
DbConnection_NoShortCircuit ==
    /\ pc = "db_connect"
    /\ \E outcome \in QueryOutcomes :
          /\ connection_check' = check_database_connection(outcome)
          /\ last_outcome' = outcome
    /\ stages' = Append(stages, "ensure_database_ready")
    /\ store_ops' = Append(store_ops, "connect")
    /\ pc' = "db_tables"
    /\ UNCHANGED <<req_vars, crud_vars, environ, store0, ready, store_vars,
                   caller, ear_vars, tables_check, migration_result,
                   final_check, proc, checks, overall_status, raised, app,
                   requests>>

\* connection_check = self.check_database_connection(), and the early return
DbConnection ==
    /\ pc = "db_connect"
    /\ \E outcome \in QueryOutcomes :
          /\ connection_check' = check_database_connection(outcome)
          /\ last_outcome' = outcome
    /\ stages' = Append(stages, "ensure_database_ready")
    /\ store_ops' = Append(store_ops, "connect")
    /\ IF connection_check'.status # "healthy"
       THEN /\ db_ready_result' =
                  [status |-> "unhealthy", message |-> "cannot_connect",
                   action_taken |-> "absent"]
            /\ pc' = "ear_db"
       ELSE /\ pc' = "db_tables"
            /\ UNCHANGED db_ready_result
    /\ UNCHANGED <<req_vars, crud_vars, environ, store0, ready, store_vars,
                   caller, env_check, settings_check, tables_check,
                   migration_result, final_check, proc, checks,
                   overall_status, raised, app, requests>>

\* DbTables that runs the migrations after any tables check that is not
\* healthy
DbTables_MigratesOnError ==
    /\ pc = "db_tables"
    /\ \E outcome \in StoreOutcomes :
          /\ tables_check' = check_database_tables(outcome)
          /\ last_outcome' = outcome
    /\ store_ops' = Append(store_ops, "inspect")
    /\ IF tables_check'.status = "healthy"
       THEN /\ db_ready_result' =
                  [status |-> "healthy", message |-> "ready",
                   action_taken |-> "none"]
            /\ pc' = "ear_db"
       ELSE /\ pc' = "db_migrate"
            /\ UNCHANGED db_ready_result
    /\ UNCHANGED <<req_vars, crud_vars, environ, store0, ready, store_vars,
                   caller, env_check, settings_check, connection_check,
                   migration_result, final_check, proc, checks,
                   overall_status, raised, app, stages, requests>>

\* DbTables that runs the migrations whenever the inspection succeeded
DbTables_AlwaysMigrates ==
    /\ pc = "db_tables"
    /\ \E outcome \in StoreOutcomes :
          /\ tables_check' = check_database_tables(outcome)
          /\ last_outcome' = outcome
    /\ store_ops' = Append(store_ops, "inspect")
    /\ IF tables_check'.status # "unhealthy"
       THEN /\ pc' = "db_migrate"
            /\ UNCHANGED db_ready_result
       ELSE /\ db_ready_result' =
                  [status |-> "unhealthy", message |-> "not_ready",
                   action_taken |-> "absent"]
            /\ pc' = "ear_db"
    /\ UNCHANGED <<req_vars, crud_vars, environ, store0, ready, store_vars,
                   caller, env_check, settings_check, connection_check,
                   migration_result, final_check, proc, checks,
                   overall_status, raised, app, stages, requests>>

\* tables_check = self.check_database_tables(), and the returns that follow
\* it when no migration is run
DbTables ==
    /\ pc = "db_tables"
    /\ \E outcome \in StoreOutcomes :
          /\ tables_check' = check_database_tables(outcome)
          /\ last_outcome' = outcome
    /\ store_ops' = Append(store_ops, "inspect")
    /\ IF tables_check'.status = "healthy"
       THEN /\ db_ready_result' =
                  [status |-> "healthy", message |-> "ready",
                   action_taken |-> "none"]
            /\ pc' = "ear_db"
       ELSE IF /\ tables_check'.status = "warning"
               /\ tables_check'.missing_tables # <<>>
            THEN /\ pc' = "db_migrate"
                 /\ UNCHANGED db_ready_result
            ELSE /\ db_ready_result' =
                       [status |-> "unhealthy", message |-> "not_ready",
                        action_taken |-> "absent"]
                 /\ pc' = "ear_db"
    /\ UNCHANGED <<req_vars, crud_vars, environ, store0, ready, store_vars,
                   caller, env_check, settings_check, connection_check,
                   migration_result, final_check, proc, checks,
                   overall_status, raised, app, stages, requests>>

\* migration_result = self.run_database_migrations(), and the return when
\* the migrations failed
DbMigrate ==
    /\ pc = "db_migrate"
    /\ \E p \in ProcOutcomes, created \in MigrationEffects :
          /\ proc' = p
          /\ migration_result' = run_database_migrations(p)
          /\ tables' = IF p.kind = "exception" THEN tables
                       ELSE tables \cup created
          /\ last_outcome' = p.kind
    /\ store_ops' = Append(store_ops, "migrate")
    /\ IF migration_result'.status = "healthy"
       THEN /\ pc' = "db_recheck"
            /\ UNCHANGED db_ready_result
       ELSE /\ db_ready_result' =
                  [status |-> "unhealthy", message |-> "migrations_failed",
                   action_taken |-> "migrations_failed"]
            /\ pc' = "ear_db"
    /\ UNCHANGED <<req_vars, crud_vars, environ, store0, ready, users, caller,
                   env_check, settings_check, connection_check, tables_check,
                   final_check, checks, overall_status, raised, app, stages,
                   requests>>

\* DbRecheck that trusts the migrations and ignores final_check
DbRecheck_AlwaysHealthy ==
    /\ pc = "db_recheck"
    /\ \E outcome \in StoreOutcomes :
          /\ final_check' = check_database_tables(outcome)
          /\ last_outcome' = outcome
    /\ store_ops' = Append(store_ops, "inspect")
    /\ db_ready_result' =
          [status |-> "healthy", message |-> "prepared_by_migrations",
           action_taken |-> "migrations_run"]
    /\ pc' = "ear_db"
    /\ UNCHANGED <<req_vars, crud_vars, environ, store0, ready, store_vars,
                   caller, env_check, settings_check, connection_check,
                   tables_check, migration_result, proc, checks,
                   overall_status, raised, app, stages, requests>>

\* final_check = self.check_database_tables() after the migrations
DbRecheck ==
    /\ pc = "db_recheck"
    /\ \E outcome \in StoreOutcomes :
          /\ final_check' = check_database_tables(outcome)
          /\ last_outcome' = outcome
    /\ store_ops' = Append(store_ops, "inspect")
    /\ db_ready_result' =
          IF final_check'.status = "healthy"
          THEN [status |-> "healthy", message |-> "prepared_by_migrations",
                action_taken |-> "migrations_run"]
          ELSE [status |-> "unhealthy",
                message |-> "migrations_run_tables_missing",
                action_taken |-> "migrations_run"]
    /\ pc' = "ear_db"
    /\ UNCHANGED <<req_vars, crud_vars, environ, store0, ready, store_vars,
                   caller, env_check, settings_check, connection_check,
                   tables_check, migration_result, proc, checks,
                   overall_status, raised, app, stages, requests>>

\* db_ready_result = checker.ensure_database_ready(); raise unless healthy
DbStage ==
    /\ pc = "ear_db"
    /\ IF db_ready_result.status # "healthy"
       THEN pc' = "aborted" /\ raised' = "database" /\ UNCHANGED caller
       ELSE pc' = "full_env" /\ caller' = "ensure_application_ready"
            /\ UNCHANGED raised
    /\ stages' = IF db_ready_result.status # "healthy" THEN stages
                 ELSE Append(stages, "full_health_check")
    /\ UNCHANGED <<req_vars, crud_vars, environ, store0, ready, store_vars,
                   ear_vars, db_vars, proc, checks, overall_status, app,
                   store_ops, requests, last_outcome>>

(***************************************************************************)
(* perform_full_health_check                                               *)
(***************************************************************************)
full_frame == <<req_vars, crud_vars, environ, store0, ready, caller,
                ear_vars, db_vars, proc, overall_status, raised, app, stages,
                requests>>

\* FullEnvironment that skips the other checks on an unhealthy environment
FullEnvironment_ShortCircuits ==
    /\ pc = "full_env"
    /\ checks' = [NoChecks EXCEPT !["environment"] =
                                      check_environment_variables]
    /\ pc' = IF checks'["environment"].status = "unhealthy"
             THEN "full_fold" ELSE "full_connection"
    /\ UNCHANGED <<full_frame, store_vars, store_ops, last_outcome>>

\* "environment": self.check_environment_variables()
FullEnvironment ==
    /\ pc = "full_env"
    /\ checks' = [NoChecks EXCEPT !["environment"] =
                                      check_environment_variables]
    /\ pc' = "full_connection"
    /\ UNCHANGED <<full_frame, store_vars, store_ops, last_outcome>>

\* "database_connection": self.check_database_connection()
FullConnection ==
    /\ pc = "full_connection"
    /\ \E outcome \in QueryOutcomes :
          /\ checks' = [checks EXCEPT !["database_connection"] =
                                          check_database_connection(outcome)]
          /\ last_outcome' = outcome
    /\ store_ops' = Append(store_ops, "connect")
    /\ pc' = "full_tables"
    /\ UNCHANGED <<full_frame, store_vars>>

\* "database_tables": self.check_database_tables()
FullTables ==
    /\ pc = "full_tables"
    /\ \E outcome \in StoreOutcomes :
          /\ checks' = [checks EXCEPT !["database_tables"] =
                                          check_database_tables(outcome)]
          /\ last_outcome' = outcome
    /\ store_ops' = Append(store_ops, "inspect")
    /\ pc' = "full_permissions"
    /\ UNCHANGED <<full_frame, store_vars>>

\* "database_permissions": self.check_database_permissions()
FullPermissions ==
    /\ pc = "full_permissions"
    /\ \E outcome \in StoreOutcomes :
          /\ checks' = [checks EXCEPT !["database_permissions"] =
                                          check_database_permissions(outcome)]
          /\ last_outcome' = outcome
    /\ store_ops' = Append(store_ops, "temp_table")
    /\ pc' = "full_superadmin"
    /\ UNCHANGED <<full_frame, store_vars>>

\* "superadmin_user": self.check_and_create_superadmin()
FullSuperadmin ==
    /\ pc = "full_superadmin"
    /\ \E outcome \in StoreOutcomes \cup {"commit_error"} :
          /\ checks' = [checks EXCEPT !["superadmin_user"] =
                                          superadmin_result(outcome)]
          /\ users' = superadmin_users(outcome)
          /\ store_ops' = store_ops \o superadmin_ops(outcome)
          /\ last_outcome' = superadmin_outcome(outcome)
    /\ pc' = "full_settings"
    /\ UNCHANGED <<full_frame, tables>>

\* "application_settings": self.check_application_settings()
FullSettings ==
    /\ pc = "full_settings"
    /\ checks' = [checks EXCEPT !["application_settings"] =
                                    check_application_settings]
    /\ pc' = "full_fold"
    /\ UNCHANGED <<full_frame, store_vars, store_ops, last_outcome>>

\* the loop that sets results["overall_status"], and the return to the caller
FullFold ==
    /\ pc = "full_fold"
    /\ overall_status' = fold_status(checks, 1, "healthy")
    /\ pc' = CASE caller = "ensure_application_ready" -> "ear_final"
               [] caller = "health_check" -> "serving"
               [] OTHER -> "report_done"
    /\ UNCHANGED <<req_vars, crud_vars, environ, store0, ready, store_vars,
                   caller, ear_vars, db_vars, proc, checks, raised, app,
                   stages, store_ops, requests, last_outcome>>

(***************************************************************************)
(* The end of start-up, and the callers of the full check                  *)
(***************************************************************************)
\* FinalStage that raises only when nothing was checked
FinalStage_NeverRaises ==
    /\ pc = "ear_final"
    /\ IF overall_status = "none"
       THEN pc' = "aborted" /\ raised' = "final" /\ UNCHANGED ready
       ELSE pc' = "main_create_all" /\ ready' = TRUE /\ UNCHANGED raised
    /\ UNCHANGED <<req_vars, crud_vars, environ, store0, store_vars, caller,
                   ear_vars, db_vars, proc, checks, overall_status, app,
                   stages, store_ops, requests, last_outcome>>

\* if not check_application_health(): raise; otherwise the function returns
FinalStage ==
    /\ pc = "ear_final"
    /\ IF ~check_application_health
       THEN pc' = "aborted" /\ raised' = "final" /\ UNCHANGED ready
       ELSE pc' = "main_create_all" /\ ready' = TRUE /\ UNCHANGED raised
    /\ UNCHANGED <<req_vars, crud_vars, environ, store0, store_vars, caller,
                   ear_vars, db_vars, proc, checks, overall_status, app,
                   stages, store_ops, requests, last_outcome>>

\* Base.metadata.create_all(bind=engine)
CreateAll ==
    /\ pc = "main_create_all"
    /\ \E outcome \in StoreOutcomes :
          /\ last_outcome' = outcome
          /\ IF outcome = "ok"
             THEN /\ tables' = tables \cup ExpectedSet
                  /\ pc' = "main_app"
                  /\ UNCHANGED raised
             ELSE /\ pc' = "aborted"
                  /\ raised' = "create_all"
                  /\ UNCHANGED tables
    /\ store_ops' = Append(store_ops, "create_all")
    /\ UNCHANGED <<req_vars, crud_vars, environ, store0, ready, users, caller,
                   ear_vars, db_vars, proc, checks, overall_status, app,
                   stages, requests>>

\* app = FastAPI(...), middleware and routers
ConstructApp ==
    /\ pc = "main_app"
    /\ app' = TRUE
    /\ pc' = "serving"
    /\ UNCHANGED <<req_vars, crud_vars, environ, store0, ready, store_vars,
                   caller, ear_vars, db_vars, proc, checks, overall_status,
                   raised, stages, store_ops, requests, last_outcome>>

\* GET /api/v1/health/ calls perform_full_health_check
HealthRequest ==
    /\ pc = "serving"
    /\ app
    /\ requests < MaxRequests
    /\ requests' = requests + 1
    /\ caller' = "health_check"
    /\ pc' = "full_env"
    /\ UNCHANGED <<req_vars, crud_vars, environ, store0, ready, store_vars,
                   ear_vars, db_vars, proc, checks, overall_status, raised,
                   app, stages, store_ops, last_outcome>>

\* print_health_report calls perform_full_health_check
PrintHealthReport ==
    /\ pc = "boot"
    /\ caller' = "print_health_report"
    /\ pc' = "full_env"
    /\ UNCHANGED <<req_vars, crud_vars, environ, store0, ready, store_vars,
                   ear_vars, db_vars, proc, checks, overall_status, raised,
                   app, stages, store_ops, requests, last_outcome>>

Next ==
    \/ StartMain
    \/ EnvStage
    \/ SettingsStage
    \/ DbConnection
    \/ DbTables
    \/ DbMigrate
    \/ DbRecheck
    \/ DbStage
    \/ FullEnvironment
    \/ FullConnection
    \/ FullTables
    \/ FullPermissions
    \/ FullSuperadmin
    \/ FullSettings
    \/ FullFold
    \/ FinalStage
    \/ CreateAll
    \/ ConstructApp
    \/ HealthRequest
    \/ PrintHealthReport

Spec == Init /\ [][Next]_vars

TypeOK ==
    /\ pc \in {"boot", "ear_env", "ear_settings", "db_connect", "db_tables",
               "db_migrate", "db_recheck", "ear_db", "full_env",
               "full_connection", "full_tables", "full_permissions",
               "full_superadmin", "full_settings", "full_fold", "ear_final",
               "main_create_all", "main_app", "serving", "report_done",
               "aborted"}
    /\ UsersConstraint(users)
    /\ app \in BOOLEAN
    /\ ready \in BOOLEAN
    /\ overall_status \in Status \cup {"none"}

(***************************************************************************)
(* The fold of perform_full_health_check on every combination of statuses  *)
(***************************************************************************)
InitFold ==
    /\ environ = [v \in RequiredVarSet |-> GoodValue(v)]
    /\ tables = ExpectedSet
    /\ users = {}
    /\ store0 = [tables |-> tables, users |-> users]
    /\ pc = "full_fold"
    /\ caller = "print_health_report"
    /\ checks \in [CheckNameSet -> [status : Status]]
    /\ NoRows
    /\ ProgramInit

NextFold == FullFold

SpecFold == InitFold /\ [][NextFold]_vars

(***************************************************************************)
(* Properties of start-up                                                  *)
(***************************************************************************)
StageOrder ==
    <<"environment", "settings", "ensure_database_ready",
      "full_health_check">>

IsPrefix(s, t) ==
    /\ Len(s) <= Len(t)
    /\ \A i \in 1..Len(s) : s[i] = t[i]

Ops(seq) == {seq[i] : i \in DOMAIN seq}

\* C1: ensure_application_ready enters its stages in the order environment,
\* settings, ensure_database_ready, full health check, and a stage runs only
\* when the one before it passed; an unhealthy environment check aborts at
\* once, with no later stage run and no operation sent to the store or to
\* the migration tool.
C1_StagesInOrder ==
    /\ IsPrefix(stages, StageOrder)
    /\ settings_check # NoResult => env_check.status = "healthy"
    /\ connection_check # NoResult => settings_check.status # "unhealthy"
    /\ caller = "ensure_application_ready"
          => db_ready_result.status = "healthy"
    /\ raised = "database" => stages = SubSeq(StageOrder, 1, 3)
    /\ env_check.status = "unhealthy"
          => /\ pc = "aborted"
             /\ raised = "environment"
             /\ stages = <<"environment">>
             /\ store_ops = <<>>
             /\ settings_check = NoResult
             /\ connection_check = NoResult
             /\ checks = NoChecks
             /\ tables = store0.tables
             /\ users = store0.users

C1_Witness ==
    /\ env_check.status = "unhealthy"
    /\ pc = "aborted"

\* C2: the application object exists only after ensure_application_ready
\* returned normally, which needs a healthy environment check, a healthy
\* ensure_database_ready and a final full check that is not unhealthy; an
\* unhealthy result of one of the three is followed by the start-up error,
\* and after the error the application object is never constructed.
C2_ReadinessGate ==
    /\ app => /\ ready
              /\ raised = "none"
              /\ env_check.status = "healthy"
              /\ db_ready_result.status = "healthy"
    /\ ready => raised \in {"none", "create_all"}
    /\ pc \in {"main_create_all", "main_app"}
          => ready /\ overall_status \notin {"unhealthy", "none"}
    /\ env_check.status = "unhealthy" => raised = "environment"
    /\ db_ready_result.status = "unhealthy" /\ pc # "ear_db"
          => raised = "database"
    /\ /\ caller = "ensure_application_ready"
       /\ overall_status = "unhealthy"
       /\ pc # "ear_final"
       => raised = "final"
    /\ raised # "none" => ~app /\ pc = "aborted"

C2_Witness ==
    /\ raised = "final"
    /\ overall_status = "unhealthy"
    /\ ~app

\* the checks of the final full check other than the settings check
OtherChecks == CheckNameSet \ {"application_settings"}

\* C3: when the settings check returns warning and every other check is
\* healthy, ensure_application_ready does not raise.
C3_WarningDoesNotAbort ==
    /\ caller = "ensure_application_ready"
    /\ pc \notin {"full_env", "full_connection", "full_tables",
                  "full_permissions", "full_superadmin", "full_settings",
                  "full_fold", "ear_final"}
    /\ settings_check.status = "warning"
    /\ env_check.status = "healthy"
    /\ db_ready_result.status = "healthy"
    /\ \A n \in OtherChecks : checks[n].status = "healthy"
    => raised = "none"

\* C4: once ensure_application_ready has returned normally, the users table
\* holds a row with username superadmin and the admin flag set.
C4_SuperadminExists ==
    ready => \E u \in users : u.username = "superadmin" /\ u.is_admin

C4_Witness ==
    /\ ready
    /\ pc = "main_create_all"
    /\ checks["superadmin_user"].action_taken = "created"
    /\ ~\E u \in store0.users : u.username = "superadmin"

(***************************************************************************)
(* Properties of ensure_database_ready                                     *)
(***************************************************************************)
\* C5: when the connection check is not healthy, ensure_database_ready
\* returns unhealthy at once: no table is inspected, the migration tool is
\* not invoked, and the only operation sent to the store is the probe.
C5_ConnectionShortCircuit ==
    connection_check.status \in {"unhealthy", "warning"}
    => /\ db_ready_result.status = "unhealthy"
       /\ db_ready_result.message = "cannot_connect"
       /\ tables_check = NoResult
       /\ migration_result = NoResult
       /\ final_check = NoResult
       /\ proc = NoProc
       /\ store_ops = <<"connect">>
       /\ pc \in {"ear_db", "aborted"}

C5_Witness ==
    /\ connection_check.status = "unhealthy"
    /\ pc = "ear_db"

\* C6: when the connection check is healthy and the inspection finds every
\* expected table in the store, ensure_database_ready returns healthy with
\* action_taken none, the migration tool has not been invoked and the store
\* is as it was.
C6_CompleteTablesNoAction ==
    /\ connection_check.status = "healthy"
    /\ tables_check # NoResult
    /\ ~tables_check.error
    /\ ExpectedSet \subseteq store0.tables
    => /\ db_ready_result.status = "healthy"
       /\ db_ready_result.action_taken = "none"
       /\ proc = NoProc
       /\ migration_result = NoResult
       /\ "migrate" \notin Ops(store_ops)
       /\ pc = "ear_db" => tables = store0.tables /\ users = store0.users

C6_Witness ==
    /\ pc = "ear_db"
    /\ connection_check.status = "healthy"
    /\ tables_check.status = "healthy"
    /\ store0.tables = ExpectedSet \cup ExtraTables

\* C7: on return from ensure_database_ready with a healthy connection and
\* expected tables missing, the migration tool has been invoked; if it
\* exited 0 and the re-check found every expected table the result is
\* healthy with action migrations_run, and if it exited non-zero the result
\* is unhealthy with action migrations_failed.
C7_MigrationOutcome ==
    /\ pc = "ear_db"
    /\ connection_check.status = "healthy"
    /\ tables_check.status = "warning"
    => /\ proc # NoProc
       /\ /\ proc.kind = "exit"
          /\ proc.returncode = 0
          /\ ~final_check.error
          /\ ExpectedSet \subseteq tables
          => /\ db_ready_result.status = "healthy"
             /\ db_ready_result.action_taken = "migrations_run"
       /\ proc.kind = "exit" /\ proc.returncode # 0
          => /\ db_ready_result.status = "unhealthy"
             /\ db_ready_result.action_taken = "migrations_failed"
             /\ final_check = NoResult

C7_Witness ==
    /\ pc = "ear_db"
    /\ store0.tables = {}
    /\ proc = [kind |-> "exit", returncode |-> 0]
    /\ db_ready_result.status = "healthy"
    /\ db_ready_result.action_taken = "migrations_run"

\* C8: after a migration run ensure_database_ready is healthy only if the
\* re-check found every expected table; when the tool succeeded and tables
\* are still missing the result is unhealthy, with a message and an action
\* different from those of the result for a tool that failed.
C8_RecheckDecides ==
    /\ pc = "ear_db"
    /\ proc # NoProc
    => /\ db_ready_result.status = "healthy"
          => /\ final_check.status = "healthy"
             /\ ExpectedSet \subseteq tables
       /\ /\ migration_result.status = "healthy"
          /\ ~(ExpectedSet \subseteq tables)
          => /\ db_ready_result.status = "unhealthy"
             /\ db_ready_result.message = "migrations_run_tables_missing"
             /\ db_ready_result.action_taken = "migrations_run"
       /\ migration_result.status # "healthy"
          => /\ db_ready_result.status = "unhealthy"
             /\ db_ready_result.message = "migrations_failed"
             /\ db_ready_result.action_taken = "migrations_failed"

C8_Witness ==
    /\ pc = "ear_db"
    /\ proc = [kind |-> "exit", returncode |-> 0]
    /\ ~final_check.error
    /\ final_check.missing_tables # <<>>
    /\ db_ready_result.status = "unhealthy"

(***************************************************************************)
(* Properties of perform_full_health_check                                 *)
(***************************************************************************)
Statuses(cs) == {cs[n].status : n \in CheckNameSet}

Precedence(S) ==
    IF "unhealthy" \in S THEN "unhealthy"
    ELSE IF "warning" \in S THEN "warning" ELSE "healthy"

\* C9: for every assignment of healthy, warning and unhealthy to the six
\* checks, the overall status is unhealthy iff some check is unhealthy,
\* warning iff none is unhealthy and some check is warning, and healthy iff
\* all are healthy.
C9_FoldPrecedence ==
    pc = "report_done" => overall_status = Precedence(Statuses(checks))

C9_Witness ==
    /\ pc = "report_done"
    /\ checks["environment"].status = "warning"
    /\ checks["application_settings"].status = "unhealthy"
    /\ overall_status = "unhealthy"

\* C10: when perform_full_health_check reaches its fold, each of the six
\* checks has run and reported a status, whatever the earlier checks
\* returned, and the probe, the inspection, the permission test and the
\* superadmin lookup have each been sent to the store.
C10_AllSixChecksRun ==
    /\ pc = "full_fold"
          => /\ \A n \in CheckNameSet : checks[n].status \in Status
             /\ {"connect", "inspect", "temp_table", "query_user"}
                   \subseteq Ops(store_ops)
    /\ pc = "full_connection" => checks["environment"] # NoResult
    /\ pc = "full_settings"
          => \A n \in OtherChecks : checks[n].status \in Status

C10_Witness ==
    /\ pc = "full_fold"
    /\ checks["environment"].status = "unhealthy"
    /\ checks["database_connection"].status = "unhealthy"
    /\ checks["database_permissions"].status = "healthy"
    /\ checks["superadmin_user"].status = "healthy"
    /\ checks["application_settings"].status = "warning"

(***************************************************************************)
(* The application after a clean start-up                                  *)
(***************************************************************************)
\* number of requests that change the rows of the store
MaxUpdates == 2
\* number of consecutive calls of check_and_create_superadmin
MaxCalls == 2

\* what start-up leaves behind and no request handler changes
boot_vars == <<environ, store0, ready, pc, caller, ear_vars, db_vars, proc,
               checks, overall_status, raised, app, stages>>

\* the account check_and_create_superadmin inserts into an empty users table
first_superadmin ==
    [id |-> 1, username |-> "superadmin",
     password_hash |-> hash_password("superadmin"), is_admin |-> TRUE]

\* the process serves requests after it started on a complete, empty store
\* with a valid configuration: everything but the rows of the store
Serving ==
    /\ environ = [v \in RequiredVarSet |-> GoodValue(v)]
    /\ tables = ExpectedSet
    /\ store0 = [tables |-> ExpectedSet, users |-> {}]
    /\ pc = "serving"
    /\ caller = "ensure_application_ready"
    /\ env_check = check_environment_variables
    /\ settings_check = check_application_settings
    /\ connection_check = check_database_connection("ok")
    /\ tables_check = check_database_tables("ok")
    /\ migration_result = NoResult
    /\ final_check = NoResult
    /\ db_ready_result = [status |-> "healthy", action_taken |-> "none",
                          message |-> "ready"]
    /\ proc = NoProc
    /\ checks = [environment |-> check_environment_variables,
                 database_connection |-> check_database_connection("ok"),
                 database_tables |-> check_database_tables("ok"),
                 database_permissions |-> check_database_permissions("ok"),
                 superadmin_user |->
                     [status |-> "healthy", superadmin_exists |-> FALSE,
                      action_taken |-> "created", error |-> FALSE],
                 application_settings |-> check_application_settings]
    /\ overall_status = "healthy"
    /\ raised = "none"
    /\ ready = TRUE
    /\ app = TRUE
    /\ stages = StageOrder
    /\ store_ops = <<"connect", "inspect", "connect", "inspect",
                     "temp_table", "query_user", "insert_user",
                     "create_all">>
    /\ requests = 0
    /\ last_outcome = "ok"
    /\ response = NoResponse
    /\ sa_calls = <<>>
    /\ workers = [w \in Workers |-> Idle]

\* the state right after start-up: the only user is the new superadmin
Started == Serving /\ users = {first_superadmin}

\* the values of an optional boolean field of a request body: None is the
\* empty sequence, a boolean b is <<b>>
OptionalBool == {<<>>, <<TRUE>>, <<FALSE>>}

UserIds == 1..(MaxUpdates + 1)

\* the rows and the disk as a request finds them
Snapshot ==
    [users |-> users, audio_files |-> audio_files, ai_models |-> ai_models,
     transcriptions |-> transcriptions, translations |-> translations,
     summaries |-> summaries, disk |-> disk]

\* the row update_user writes
updated_user(user, username, is_admin) ==
    [user EXCEPT !.username = username,
                 !.is_admin = IF is_admin = <<>> THEN @ ELSE is_admin[1]]

\* PUT /api/v1/users/{user_id}
UpdateUser ==
    /\ pc = "serving"
    /\ requests < MaxUpdates
    /\ requests' = requests + 1
    /\ \E user_id \in UserIds, username \in Usernames,
          is_admin \in OptionalBool, outcome \in StoreOutcomes :
          LET found == {u \in users : u.id = user_id}
              user == CHOOSE u \in found : TRUE
              rows == (users \ found)
                        \cup {updated_user(user, username, is_admin)}
          IN  /\ last_outcome' = outcome
              /\ request' = [handler |-> "update_user", id |-> user_id,
                             name |-> username]
              /\ CASE outcome = "error" ->
                        /\ response' = [code |-> 500, detail |-> "store"]
                        /\ UNCHANGED <<users, store_ops>>
                   [] found = {} ->
                        /\ response' = [code |-> 404, detail |-> "user"]
                        /\ store_ops' = Append(store_ops, "query_user")
                        /\ UNCHANGED users
                   [] ~UsersConstraint(rows) ->
                        /\ response' = [code |-> 500, detail |-> "unique"]
                        /\ store_ops' = store_ops
                                          \o <<"query_user", "update_user">>
                        /\ UNCHANGED users
                   [] OTHER ->
                        /\ response' = [code |-> 200, detail |-> "user"]
                        /\ store_ops' = store_ops
                                          \o <<"query_user", "update_user">>
                        /\ users' = rows
    /\ sa_calls' = <<>>
    /\ before' = Snapshot
    /\ UNCHANGED <<boot_vars, tables, audio_files, ai_models, transcriptions,
                   translations, summaries, next_id, disk, workers>>

\* one more of a sequence of calls of check_and_create_superadmin
CheckAndCreateSuperadmin ==
    /\ pc = "serving"
    /\ Len(sa_calls) < MaxCalls
    /\ \E outcome \in StoreOutcomes \cup {"commit_error"} :
          /\ sa_calls' = Append(sa_calls,
                                [result |-> superadmin_result(outcome),
                                 outcome |-> superadmin_outcome(outcome),
                                 before |-> users,
                                 ops |-> superadmin_ops(outcome),
                                 after |-> superadmin_users(outcome)])
          /\ users' = superadmin_users(outcome)
          /\ store_ops' = store_ops \o superadmin_ops(outcome)
          /\ last_outcome' = superadmin_outcome(outcome)
    /\ UNCHANGED <<boot_vars, crud_vars, tables, requests, response,
                   workers>>

InitSuperadmin == Started /\ NoRows

NextSuperadmin == UpdateUser \/ CheckAndCreateSuperadmin

SpecSuperadmin == InitSuperadmin /\ [][NextSuperadmin]_vars

(***************************************************************************)
(* Properties of check_and_create_superadmin after start-up                *)
(***************************************************************************)
\* the accounts of a users table that carry the privileged username and the
\* admin flag
Privileged(rows) == {u \in rows : u.username = "superadmin" /\ u.is_admin}

\* C11: two consecutive calls of check_and_create_superadmin that meet no
\* store failure leave exactly one privileged superadmin account after the
\* first call and after the second, and the second call takes no action.
C11_Idempotent ==
    (/\ Len(sa_calls) = 2
     /\ sa_calls[1].outcome = "ok"
     /\ sa_calls[2].outcome = "ok")
    => /\ Cardinality(Privileged(sa_calls[1].after)) = 1
       /\ Cardinality(Privileged(sa_calls[2].after)) = 1
       /\ sa_calls[2].result.action_taken = "none"

\* C12: a call of check_and_create_superadmin that meets no store failure
\* and finds a user named "superadmin", whatever its admin flag, attempts no
\* insert and reports healthy.
C12_LookupByUsername ==
    \A i \in DOMAIN sa_calls :
        (/\ sa_calls[i].outcome = "ok"
         /\ \E u \in sa_calls[i].before : u.username = "superadmin")
        => /\ "insert_user" \notin Ops(sa_calls[i].ops)
           /\ sa_calls[i].result.status = "healthy"

(***************************************************************************)
(* Properties of the individual checks                                     *)
(***************************************************************************)
\* C13: when the inspection of the store succeeds, check_database_tables
\* reports healthy if no declared table is missing and warning, never
\* unhealthy, if one is; undeclared tables of the store are listed as
\* extra_tables and do not change the status.
C13_TablesStatus ==
    (pc = "full_permissions" /\ last_outcome = "ok")
    => LET r == checks["database_tables"]
       IN  /\ r.status = IF ExpectedSet \subseteq tables THEN "healthy"
                         ELSE "warning"
           /\ Ops(r.missing_tables) = ExpectedSet \ tables
           /\ r.extra_tables = tables \ ExpectedSet

C13_Witness ==
    /\ pc = "full_permissions"
    /\ last_outcome = "ok"
    /\ checks["database_tables"].status = "healthy"
    /\ checks["database_tables"].extra_tables # {}

(***************************************************************************)
(* The health report on every environment                                  *)
(***************************************************************************)
\* the values a key is given
Values(var) == OtherValues(var) \cup {GoodValue(var)}

\* every combination of the values of the seven keys
AllEnvironments ==
    {EnvWith(RequiredVarSet, b) :
        b \in [POSTGRES_DB : Values("POSTGRES_DB"),
               POSTGRES_USER : Values("POSTGRES_USER"),
               POSTGRES_PASSWORD : Values("POSTGRES_PASSWORD"),
               DB_HOST : Values("DB_HOST"),
               SECRET_KEY : Values("SECRET_KEY"),
               DEBUG : Values("DEBUG"),
               APP_ENV : Values("APP_ENV")]}

\* print_health_report is run against a complete store
InitEnv ==
    /\ environ \in AllEnvironments
    /\ tables = ExpectedSet
    /\ users = {first_superadmin}
    /\ store0 = [tables |-> tables, users |-> users]
    /\ pc = "boot"
    /\ caller = "none"
    /\ checks = NoChecks
    /\ NoRows
    /\ ProgramInit

NextEnv ==
    \/ PrintHealthReport
    \/ FullEnvironment
    \/ FullConnection
    \/ FullTables
    \/ FullPermissions
    \/ FullSuperadmin
    \/ FullSettings
    \/ FullFold

SpecEnv == InitEnv /\ [][NextEnv]_vars

\* the keys that are unset or set to a blank value
Offending ==
    {v \in RequiredVarSet :
        v \notin DOMAIN environ \/ environ[v] \in {"", " ", "  "}}

\* the environment check of the full check has run
EnvironmentChecked == checks["environment"] # NoResult

\* C14: check_environment_variables is unhealthy if and only if one of the
\* seven required keys is unset or blank, healthy otherwise, and lists
\* exactly the offending keys in missing_vars or empty_vars.
C14_EnvironmentStatus ==
    EnvironmentChecked
    => LET r == checks["environment"]
       IN  /\ r.status = IF Offending = {} THEN "healthy" ELSE "unhealthy"
           /\ Ops(r.missing_vars) \cup Ops(r.empty_vars) = Offending
           /\ Ops(r.missing_vars) = RequiredVarSet \ DOMAIN environ

C14_Witness ==
    /\ EnvironmentChecked
    /\ checks["environment"].status = "unhealthy"
    /\ checks["environment"].missing_vars = <<"DB_HOST">>
    /\ checks["environment"].empty_vars = <<"POSTGRES_DB", "SECRET_KEY">>

\* the settings check of the full check has run
SettingsChecked == checks["application_settings"] # NoResult

\* the rules of check_application_settings that the environment violates;
\* APP_ENV and DEBUG are compared in lower case
ViolatedRules ==
    {v \in {"APP_ENV", "SECRET_KEY", "DEBUG"} :
        CASE v = "APP_ENV" ->
                lower(getenv("APP_ENV", ""))
                    \notin {"development", "production", "testing"}
          [] v = "SECRET_KEY" -> Len(getenv("SECRET_KEY", "")) < 32
          [] OTHER -> lower(getenv("DEBUG", "")) \notin {"true", "false"}}

\* C15: check_application_settings never returns unhealthy; it returns
\* healthy when APP_ENV, SECRET_KEY and DEBUG all meet their rule and warning
\* otherwise, with exactly one issue per violated rule.
C15_SettingsStatus ==
    SettingsChecked
    => LET r == checks["application_settings"]
       IN  /\ r.status # "unhealthy"
           /\ r.status = IF ViolatedRules = {} THEN "healthy" ELSE "warning"
           /\ Len(r.issues) = Cardinality(ViolatedRules)
           /\ Ops(r.issues) = ViolatedRules

C15_Witness ==
    /\ SettingsChecked
    /\ "SECRET_KEY" \notin DOMAIN environ
    /\ "DEBUG" \in DOMAIN environ
    /\ environ["DEBUG"] = "yes"
    /\ checks["application_settings"].status = "warning"
    /\ Len(checks["application_settings"].issues) = 2

\* C16: run_database_migrations returns healthy if and only if the
\* subprocess exits with code 0; a non-zero exit, a timeout and an unexpected
\* exception each yield unhealthy, and the detail of the result tells the
\* three failures apart.
C16_MigrationResult ==
    proc # NoProc
    => /\ migration_result.status = "healthy"
          <=> (proc.kind = "exit" /\ proc.returncode = 0)
       /\ migration_result.status \in {"healthy", "unhealthy"}
       /\ migration_result.error = "error_output"
          <=> (proc.kind = "exit" /\ proc.returncode # 0)
       /\ migration_result.error = "timeout" <=> proc.kind = "timeout"
       /\ migration_result.error = "exception" <=> proc.kind = "exception"

C16_Witness ==
    /\ proc.kind = "timeout"
    /\ migration_result.status = "unhealthy"
    /\ migration_result.error = "timeout"

\* the last operation sent to the store failed
StoreFailed == last_outcome \in {"error", "commit_error"}

\* the check perform_full_health_check has just run, by its position
JustRun ==
    CASE pc = "full_tables" -> "database_connection"
      [] pc = "full_permissions" -> "database_tables"
      [] pc = "full_superadmin" -> "database_permissions"
      [] pc = "full_settings" -> "superadmin_user"
      [] OTHER -> "none"

\* C17: a store failure during check_database_connection,
\* check_database_tables, check_database_permissions or
\* check_and_create_superadmin yields a result that is unhealthy and carries
\* the error; every check that has run has a status in {healthy, warning,
\* unhealthy}; and nothing is raised when perform_full_health_check is called
\* from a request handler or from print_health_report, only a stage of
\* ensure_application_ready (or create_all of main.py) aborts the process.
C17_NoErrorEscapes ==
    /\ (JustRun # "none" /\ StoreFailed)
       => /\ checks[JustRun].status = "unhealthy"
          /\ checks[JustRun].error
    /\ \A n \in CheckNameSet :
          checks[n] # NoResult => checks[n].status \in Status
    /\ JustRun # "none" => raised = "none"
    /\ caller \in {"health_check", "print_health_report"}
       => raised = "none" /\ pc # "aborted"
    /\ raised \in {"none", "environment", "settings", "database", "final",
                   "create_all"}

C17_Witness ==
    /\ caller = "health_check"
    /\ pc = "full_settings"
    /\ last_outcome = "error"
    /\ checks["database_permissions"].status = "unhealthy"
    /\ checks["database_permissions"].error
    /\ checks["superadmin_user"].status = "unhealthy"
    /\ checks["superadmin_user"].error

(***************************************************************************)
(* The rows of the store and the delete operations                         *)
(***************************************************************************)
\* rows of the audio_files table when the process starts serving
MaxFiles == 2
\* rows of transcriptions, translations and summaries together at that time
MaxDerived == 4
\* rows of the ai_models table at that time
MaxModels == 1

\* the NULL of audio_files.user_id
Null == 0

\* a user registered after start-up
second_user ==
    [id |-> 2, username |-> "alice",
     password_hash |-> hash_password("secret"), is_admin |-> FALSE]

\* the path stored in audio_files.filename
Filename(id) == <<"uploads", id>>

Ids(rows) == {row.id : row \in rows}

\* the rows of a table with ids 1..n, given each row's foreign keys
FileRows(n, owner) ==
    {[id |-> i, user_id |-> owner[i], filename |-> Filename(i)] :
        i \in 1..n}

ModelRows(n) == {[id |-> i, operation |-> "transcription"] : i \in 1..n}

TranscriptionRows(n, parent, model) ==
    {[id |-> i, audio_file_id |-> parent[i], ai_model_id |-> model[i]] :
        i \in 1..n}

TranslationRows(n, parent, model) ==
    {[id |-> i, transcription_id |-> parent[i], ai_model_id |-> model[i]] :
        i \in 1..n}

SummaryRows(n, parent, model) ==
    {[id |-> i, translation_id |-> parent[i], ai_model_id |-> model[i]] :
        i \in 1..n}

\* the foreign keys of the declared tables hold
ForeignKeysHold ==
    /\ \A a \in audio_files : a.user_id \in Ids(users) \cup {Null}
    /\ \A t \in transcriptions :
          t.audio_file_id \in Ids(audio_files)
              /\ t.ai_model_id \in Ids(ai_models)
    /\ \A r \in translations :
          r.transcription_id \in Ids(transcriptions)
              /\ r.ai_model_id \in Ids(ai_models)
    /\ \A s \in summaries :
          s.translation_id \in Ids(translations)
              /\ s.ai_model_id \in Ids(ai_models)

\* the process serves requests on a store that holds any rows the schema
\* admits
InitCrud ==
    /\ Serving
    /\ users \in {{first_superadmin}, {first_superadmin, second_user}}
    /\ \E f \in 0..MaxFiles, m \in 0..MaxModels, t, r, s \in 0..MaxDerived :
          /\ t + r + s <= MaxDerived
          /\ \E owner \in [1..f -> Ids(users) \cup {Null}] :
                audio_files = FileRows(f, owner)
          /\ ai_models = ModelRows(m)
          /\ \E parent \in [1..t -> 1..f], model \in [1..t -> 1..m] :
                transcriptions = TranscriptionRows(t, parent, model)
          /\ \E parent \in [1..r -> 1..t], model \in [1..r -> 1..m] :
                translations = TranslationRows(r, parent, model)
          /\ \E parent \in [1..s -> 1..r], model \in [1..s -> 1..m] :
                summaries = SummaryRows(s, parent, model)
          /\ next_id = [audio_files |-> f + 1, ai_models |-> m + 1,
                        transcriptions |-> t + 1, translations |-> r + 1,
                        summaries |-> s + 1]
    /\ disk \in SUBSET {a.filename : a \in audio_files}
    /\ before = NoSnapshot
    /\ request = NoRequest

\* what ON DELETE CASCADE removes together with a set of audio files
derived_transcriptions(file_ids) ==
    {t \in transcriptions : t.audio_file_id \in file_ids}

\* translations.transcription_id without ON DELETE CASCADE
derived_translations_NoCascade(file_ids) == {}

derived_translations(file_ids) ==
    {r \in translations :
        r.transcription_id \in Ids(derived_transcriptions(file_ids))}

\* summaries.translation_id without ON DELETE CASCADE
derived_summaries_NoCascade(file_ids) == {}

derived_summaries(file_ids) ==
    {s \in summaries :
        s.translation_id \in Ids(derived_translations(file_ids))}

\* what the handler of a sequential request leaves alone
idle_frame == <<boot_vars, tables, sa_calls, workers>>

\* what a request handler leaves alone
served_frame == <<boot_vars, tables, sa_calls, next_id, workers>>

\* DELETE /api/v1/audio-files/{file_id}
DeleteAudioFile ==
    /\ pc = "serving"
    /\ requests < MaxUpdates
    /\ requests' = requests + 1
    /\ before' = Snapshot
    /\ \E file_id \in 1..MaxFiles,
          outcome \in StoreOutcomes \cup {"commit_error"},
          removal \in {"ok", "error"} :
          LET found == {a \in audio_files : a.id = file_id}
              audio_file == CHOOSE a \in found : TRUE
          IN  /\ request' = [handler |-> "delete_audio_file",
                             id |-> file_id, name |-> ""]
              /\ CASE outcome = "error" ->
                    /\ response' = [code |-> 500, detail |-> "store"]
                    /\ last_outcome' = "error"
                    /\ store_ops' = Append(store_ops, "query_audio_file")
                    /\ UNCHANGED <<audio_files, transcriptions, translations,
                                   summaries, disk>>
                [] found = {} ->
                    /\ response' = [code |-> 404, detail |-> "audio_file"]
                    /\ last_outcome' = "ok"
                    /\ store_ops' = Append(store_ops, "query_audio_file")
                    /\ UNCHANGED <<audio_files, transcriptions, translations,
                                   summaries, disk>>
                [] audio_file.filename \in disk /\ removal = "error" ->
                    /\ response' = [code |-> 500, detail |-> "os"]
                    /\ last_outcome' = "ok"
                    /\ store_ops' = Append(store_ops, "query_audio_file")
                    /\ UNCHANGED <<audio_files, transcriptions, translations,
                                   summaries, disk>>
                [] outcome = "commit_error" ->
                    /\ response' = [code |-> 500, detail |-> "store"]
                    /\ last_outcome' = "commit_error"
                    /\ store_ops' = store_ops \o <<"query_audio_file",
                                                   "delete_audio_file">>
                    /\ disk' = disk \ {audio_file.filename}
                    /\ UNCHANGED <<audio_files, transcriptions, translations,
                                   summaries>>
                [] OTHER ->
                    /\ response' = [code |-> 200, detail |-> "audio_file"]
                    /\ last_outcome' = "ok"
                    /\ store_ops' = store_ops \o <<"query_audio_file",
                                                   "delete_audio_file">>
                    /\ disk' = disk \ {audio_file.filename}
                    /\ audio_files' = audio_files \ found
                    /\ transcriptions' =
                          transcriptions \ derived_transcriptions({file_id})
                    /\ translations' =
                          translations \ derived_translations({file_id})
                    /\ summaries' = summaries \ derived_summaries({file_id})
    /\ UNCHANGED <<served_frame, users, ai_models>>

\* audio_files.user_id with ON DELETE CASCADE
owner_set_null_Cascades(user_id) ==
    {a \in audio_files : a.user_id # user_id}

\* the audio_files table after ON DELETE SET NULL of a user
owner_set_null(user_id) ==
    {[a EXCEPT !.user_id = IF @ = user_id THEN Null ELSE @] :
        a \in audio_files}

\* DELETE /api/v1/users/{user_id}
DeleteUser ==
    /\ pc = "serving"
    /\ requests < MaxUpdates
    /\ requests' = requests + 1
    /\ before' = Snapshot
    /\ \E user_id \in UserIds,
          outcome \in StoreOutcomes \cup {"commit_error"} :
          LET found == {u \in users : u.id = user_id}
          IN  /\ request' = [handler |-> "delete_user", id |-> user_id,
                             name |-> ""]
              /\ CASE outcome = "error" ->
                    /\ response' = [code |-> 500, detail |-> "store"]
                    /\ last_outcome' = "error"
                    /\ store_ops' = Append(store_ops, "query_user")
                    /\ UNCHANGED <<users, audio_files>>
                [] found = {} ->
                    /\ response' = [code |-> 404, detail |-> "user"]
                    /\ last_outcome' = "ok"
                    /\ store_ops' = Append(store_ops, "query_user")
                    /\ UNCHANGED <<users, audio_files>>
                [] outcome = "commit_error" ->
                    /\ response' = [code |-> 500, detail |-> "store"]
                    /\ last_outcome' = "commit_error"
                    /\ store_ops' = store_ops
                                      \o <<"query_user", "delete_user">>
                    /\ UNCHANGED <<users, audio_files>>
                [] OTHER ->
                    /\ response' = [code |-> 200, detail |-> "user"]
                    /\ last_outcome' = "ok"
                    /\ store_ops' = store_ops
                                      \o <<"query_user", "delete_user">>
                    /\ users' = users \ found
                    /\ audio_files' = owner_set_null(user_id)
    /\ UNCHANGED <<served_frame, ai_models, transcriptions, translations,
                   summaries, disk>>

\* the records whose ai_model_id refers to a model
dependents(model_id) ==
    [transcriptions |-> {t \in transcriptions : t.ai_model_id = model_id},
     translations |-> {r \in translations : r.ai_model_id = model_id},
     summaries |-> {s \in summaries : s.ai_model_id = model_id}]

\* session.delete of an AIModel and commit: the relationships leave the
\* dependent rows to the store (passive_deletes), and the foreign keys on
\* ai_models.id declare no ON DELETE rule, so the store rejects the delete
\* of a model that is still referred to
DeleteAIModel ==
    /\ pc = "serving"
    /\ requests < MaxUpdates
    /\ requests' = requests + 1
    /\ before' = Snapshot
    /\ \E model_id \in 1..MaxModels,
          outcome \in StoreOutcomes \cup {"commit_error"} :
          LET found == {m \in ai_models : m.id = model_id}
              d == dependents(model_id)
          IN  /\ request' = [handler |-> "delete_ai_model",
                             id |-> model_id, name |-> ""]
              /\ CASE outcome = "error" ->
                    /\ response' = [code |-> 500, detail |-> "store"]
                    /\ last_outcome' = "error"
                    /\ store_ops' = Append(store_ops, "query_ai_model")
                    /\ UNCHANGED ai_models
                [] found = {} ->
                    /\ response' = [code |-> 404, detail |-> "ai_model"]
                    /\ last_outcome' = "ok"
                    /\ store_ops' = Append(store_ops, "query_ai_model")
                    /\ UNCHANGED ai_models
                [] outcome = "commit_error" ->
                    /\ response' = [code |-> 500, detail |-> "store"]
                    /\ last_outcome' = "commit_error"
                    /\ store_ops' = store_ops \o <<"query_ai_model",
                                                   "delete_ai_model">>
                    /\ UNCHANGED ai_models
                [] d.transcriptions \cup d.translations \cup d.summaries
                       # {} ->
                    /\ response' = [code |-> 500, detail |-> "foreign_key"]
                    /\ last_outcome' = "ok"
                    /\ store_ops' = store_ops \o <<"query_ai_model",
                                                   "delete_ai_model">>
                    /\ UNCHANGED ai_models
                [] OTHER ->
                    /\ response' = [code |-> 200, detail |-> "ai_model"]
                    /\ last_outcome' = "ok"
                    /\ store_ops' = store_ops \o <<"query_ai_model",
                                                   "delete_ai_model">>
                    /\ ai_models' = ai_models \ found
    /\ UNCHANGED <<served_frame, users, audio_files, transcriptions,
                   translations, summaries, disk>>

NextCrud == DeleteAudioFile \/ DeleteUser \/ DeleteAIModel

SpecCrud == InitCrud /\ [][NextCrud]_vars

(***************************************************************************)
(* Properties of the delete operations                                     *)
(***************************************************************************)
\* C18: after a successful delete of an AudioFile no Transcription of that
\* file, no Translation of those transcriptions and no Summary of those
\* translations remains, and the records derived from other audio files are
\* the ones that were there before.
C18_FileDeleteCascades ==
    response = [code |-> 200, detail |-> "audio_file"]
    => LET gone == Ids(before.audio_files) \ Ids(audio_files)
           ts == {t \in before.transcriptions : t.audio_file_id \in gone}
           rs == {r \in before.translations :
                     r.transcription_id \in Ids(ts)}
           ss == {x \in before.summaries : x.translation_id \in Ids(rs)}
       IN  /\ Cardinality(gone) = 1
           /\ \A t \in transcriptions : t.audio_file_id \notin gone
           /\ \A r \in translations : r.transcription_id \notin Ids(ts)
           /\ \A x \in summaries : x.translation_id \notin Ids(rs)
           /\ transcriptions = before.transcriptions \ ts
           /\ translations = before.translations \ rs
           /\ summaries = before.summaries \ ss

C18_Witness ==
    /\ response = [code |-> 200, detail |-> "audio_file"]
    /\ Cardinality(before.transcriptions) = 2
    /\ Cardinality(transcriptions) = 1
    /\ before.translations # {}
    /\ translations = {}
    /\ before.summaries # {}
    /\ summaries = {}

\* C19: a successful delete_user deletes no AudioFile: every file the user
\* owned is still there with user_id NULL and its other attributes as
\* before, the files of other owners and all transcriptions, translations
\* and summaries are unchanged.
C19_UserDeleteKeepsFiles ==
    response = [code |-> 200, detail |-> "user"]
    => LET gone == Ids(before.users) \ Ids(users)
       IN  /\ Cardinality(gone) = 1
           /\ Cardinality(audio_files) = Cardinality(before.audio_files)
           /\ \A b \in before.audio_files :
                 IF b.user_id \in gone
                 THEN [b EXCEPT !.user_id = Null] \in audio_files
                 ELSE b \in audio_files
           /\ transcriptions = before.transcriptions
           /\ translations = before.translations
           /\ summaries = before.summaries
           /\ disk = before.disk

C19_Witness ==
    /\ response = [code |-> 200, detail |-> "user"]
    /\ \E b \in before.audio_files :
          /\ b.user_id \in Ids(before.users) \ Ids(users)
          /\ b.id \in {t.audio_file_id : t \in transcriptions}
    /\ \E b \in before.audio_files : b.user_id \in Ids(users)

\* C20: a delete of an AIModel that the store holds and that meets no store
\* failure succeeds, and afterwards no Transcription, Translation or Summary
\* that referred to the model remains.
C20_ModelDeleteCascades ==
    (/\ response.detail \in {"ai_model", "foreign_key"}
     /\ response.code # 404)
    => /\ response.code = 200
       /\ LET gone == Ids(before.ai_models) \ Ids(ai_models)
          IN  /\ Cardinality(gone) = 1
              /\ \A t \in transcriptions : t.ai_model_id \notin gone
              /\ \A r \in translations : r.ai_model_id \notin gone
              /\ \A x \in summaries : x.ai_model_id \notin gone

(***************************************************************************)
(* The create operations                                                   *)
(***************************************************************************)
\* the columns declared without a default that do not admit NULL
not_null ==
    [audio_files |-> {"filename", "filepath", "format", "status"},
     transcriptions |-> {"audio_file_id", "ai_model_id", "language",
                         "text_transcription", "start_time", "end_time",
                         "status"},
     translations |-> {"transcription_id", "ai_model_id",
                       "text_translation_en", "text_translation_ru",
                       "start_time", "end_time", "status"},
     summaries |-> {"translation_id", "ai_model_id", "text_summary_en",
                    "text_summary_ru", "start_time", "end_time", "status"}]

\* the attributes the mapped classes declare: columns, relationships and
\* properties
attributes ==
    [audio_files |-> not_null.audio_files
                       \cup {"id", "user_id", "original_filename",
                             "file_size", "duration", "add_time",
                             "error_text", "user", "transcriptions"},
     transcriptions |-> not_null.transcriptions
                          \cup {"id", "error_text", "created_at",
                                "updated_at", "confidence", "audio_file",
                                "ai_model", "translations", "text"},
     translations |-> not_null.translations
                        \cup {"id", "error_text", "created_at",
                              "updated_at", "confidence", "transcription",
                              "ai_model", "summaries"},
     summaries |-> not_null.summaries
                     \cup {"id", "error_text", "translation", "ai_model"}]

\* the keyword arguments each create handler passes to the mapped class
keywords ==
    [audio_files |-> {"filename", "original_filename", "file_size",
                      "duration", "status", "user_id"},
     transcriptions |-> {"audio_file_id", "language", "status"},
     translations |-> {"transcription_id", "target_language", "status"},
     summaries |-> {"transcription_id", "summary_type", "status"}]

\* how the construction and the insert of a new row end: the constructor
\* of a mapped class raises TypeError on a keyword that is no attribute of
\* the class, and the store rejects a row that leaves a NOT NULL column
\* without a value
insert_result(table) ==
    IF ~(keywords[table] \subseteq attributes[table]) THEN "type_error"
    ELSE IF ~(not_null[table] \subseteq keywords[table]) THEN "not_null"
    ELSE "ok"

\* create_transcription without the lookup of the audio file
CreateTranscription_NoLookup ==
    /\ pc = "serving"
    /\ requests < MaxUpdates
    /\ requests' = requests + 1
    /\ before' = Snapshot
    /\ \E audio_file_id \in 1..MaxFiles, outcome \in StoreOutcomes :
          LET found == {a \in audio_files : a.id = audio_file_id}
              db_transcription ==
                  [id |-> next_id.transcriptions,
                   audio_file_id |-> audio_file_id, ai_model_id |-> Null]
          IN  /\ request' = [handler |-> "create_transcription",
                             id |-> audio_file_id, name |-> ""]
              /\ last_outcome' = outcome
              /\ CASE outcome = "error" ->
                        /\ response' = [code |-> 500, detail |-> "store"]
                        /\ store_ops' = Append(store_ops, "query_audio_file")
                        /\ UNCHANGED <<transcriptions, next_id>>
                   [] insert_result("transcriptions") = "type_error" ->
                        /\ response' = [code |-> 500,
                                        detail |-> "type_error"]
                        /\ store_ops' = Append(store_ops, "query_audio_file")
                        /\ UNCHANGED <<transcriptions, next_id>>
                   [] insert_result("transcriptions") = "not_null" ->
                        /\ response' = [code |-> 500, detail |-> "not_null"]
                        /\ store_ops' = store_ops
                                          \o <<"query_audio_file",
                                               "insert_transcription">>
                        /\ next_id' = [next_id EXCEPT
                                          !.transcriptions = @ + 1]
                        /\ UNCHANGED transcriptions
                   [] OTHER ->
                        /\ response' = [code |-> 200,
                                        detail |-> "transcription"]
                        /\ store_ops' = store_ops
                                          \o <<"query_audio_file",
                                               "insert_transcription">>
                        /\ next_id' = [next_id EXCEPT
                                          !.transcriptions = @ + 1]
                        /\ transcriptions' =
                              transcriptions \cup {db_transcription}
    /\ UNCHANGED <<idle_frame, users, audio_files,
                   ai_models, translations, summaries, disk>>

\* POST /api/v1/transcriptions/
CreateTranscription ==
    /\ pc = "serving"
    /\ requests < MaxUpdates
    /\ requests' = requests + 1
    /\ before' = Snapshot
    /\ \E audio_file_id \in 1..MaxFiles, outcome \in StoreOutcomes :
          LET found == {a \in audio_files : a.id = audio_file_id}
              db_transcription ==
                  [id |-> next_id.transcriptions,
                   audio_file_id |-> audio_file_id, ai_model_id |-> Null]
          IN  /\ request' = [handler |-> "create_transcription",
                             id |-> audio_file_id, name |-> ""]
              /\ last_outcome' = outcome
              /\ CASE outcome = "error" ->
                        /\ response' = [code |-> 500, detail |-> "store"]
                        /\ store_ops' = Append(store_ops, "query_audio_file")
                        /\ UNCHANGED <<transcriptions, next_id>>
                   [] found = {} ->
                        /\ response' = [code |-> 404, detail |-> "audio_file"]
                        /\ store_ops' = Append(store_ops, "query_audio_file")
                        /\ UNCHANGED <<transcriptions, next_id>>
                   [] insert_result("transcriptions") = "type_error" ->
                        /\ response' = [code |-> 500,
                                        detail |-> "type_error"]
                        /\ store_ops' = Append(store_ops, "query_audio_file")
                        /\ UNCHANGED <<transcriptions, next_id>>
                   [] insert_result("transcriptions") = "not_null" ->
                        /\ response' = [code |-> 500, detail |-> "not_null"]
                        /\ store_ops' = store_ops
                                          \o <<"query_audio_file",
                                               "insert_transcription">>
                        /\ next_id' = [next_id EXCEPT
                                          !.transcriptions = @ + 1]
                        /\ UNCHANGED transcriptions
                   [] OTHER ->
                        /\ response' = [code |-> 200,
                                        detail |-> "transcription"]
                        /\ store_ops' = store_ops
                                          \o <<"query_audio_file",
                                               "insert_transcription">>
                        /\ next_id' = [next_id EXCEPT
                                          !.transcriptions = @ + 1]
                        /\ transcriptions' =
                              transcriptions \cup {db_transcription}
    /\ UNCHANGED <<idle_frame, users, audio_files,
                   ai_models, translations, summaries, disk>>

\* POST /api/v1/translations/
CreateTranslation ==
    /\ pc = "serving"
    /\ requests < MaxUpdates
    /\ requests' = requests + 1
    /\ before' = Snapshot
    /\ \E transcription_id \in 1..MaxDerived,
          outcome \in StoreOutcomes :
          LET found == {t \in transcriptions : t.id = transcription_id}
              db_translation ==
                  [id |-> next_id.translations,
                   transcription_id |-> transcription_id,
                   ai_model_id |-> Null]
          IN  /\ request' = [handler |-> "create_translation",
                             id |-> transcription_id, name |-> ""]
              /\ last_outcome' = outcome
              /\ CASE outcome = "error" ->
                        /\ response' = [code |-> 500, detail |-> "store"]
                        /\ store_ops' = Append(store_ops,
                                               "query_transcription")
                        /\ UNCHANGED <<translations, next_id>>
                   [] found = {} ->
                        /\ response' = [code |-> 404,
                                        detail |-> "transcription"]
                        /\ store_ops' = Append(store_ops,
                                               "query_transcription")
                        /\ UNCHANGED <<translations, next_id>>
                   [] insert_result("translations") = "type_error" ->
                        /\ response' = [code |-> 500,
                                        detail |-> "type_error"]
                        /\ store_ops' = Append(store_ops,
                                               "query_transcription")
                        /\ UNCHANGED <<translations, next_id>>
                   [] insert_result("translations") = "not_null" ->
                        /\ response' = [code |-> 500, detail |-> "not_null"]
                        /\ store_ops' = store_ops
                                          \o <<"query_transcription",
                                               "insert_translation">>
                        /\ next_id' = [next_id EXCEPT
                                          !.translations = @ + 1]
                        /\ UNCHANGED translations
                   [] OTHER ->
                        /\ response' = [code |-> 200,
                                        detail |-> "translation"]
                        /\ store_ops' = store_ops
                                          \o <<"query_transcription",
                                               "insert_translation">>
                        /\ next_id' = [next_id EXCEPT
                                          !.translations = @ + 1]
                        /\ translations' = translations \cup {db_translation}
    /\ UNCHANGED <<idle_frame, users, audio_files,
                   ai_models, transcriptions, summaries, disk>>

\* POST /api/v1/summaries/
CreateSummary ==
    /\ pc = "serving"
    /\ requests < MaxUpdates
    /\ requests' = requests + 1
    /\ before' = Snapshot
    /\ \E transcription_id \in 1..MaxDerived,
          outcome \in StoreOutcomes :
          LET found == {t \in transcriptions : t.id = transcription_id}
              db_summary ==
                  [id |-> next_id.summaries,
                   translation_id |-> Null, ai_model_id |-> Null]
          IN  /\ request' = [handler |-> "create_summary",
                             id |-> transcription_id, name |-> ""]
              /\ last_outcome' = outcome
              /\ CASE outcome = "error" ->
                        /\ response' = [code |-> 500, detail |-> "store"]
                        /\ store_ops' = Append(store_ops,
                                               "query_transcription")
                        /\ UNCHANGED <<summaries, next_id>>
                   [] found = {} ->
                        /\ response' = [code |-> 404,
                                        detail |-> "transcription"]
                        /\ store_ops' = Append(store_ops,
                                               "query_transcription")
                        /\ UNCHANGED <<summaries, next_id>>
                   [] insert_result("summaries") = "type_error" ->
                        /\ response' = [code |-> 500,
                                        detail |-> "type_error"]
                        /\ store_ops' = Append(store_ops,
                                               "query_transcription")
                        /\ UNCHANGED <<summaries, next_id>>
                   [] insert_result("summaries") = "not_null" ->
                        /\ response' = [code |-> 500, detail |-> "not_null"]
                        /\ store_ops' = store_ops
                                          \o <<"query_transcription",
                                               "insert_summary">>
                        /\ next_id' = [next_id EXCEPT
                                          !.summaries = @ + 1]
                        /\ UNCHANGED summaries
                   [] OTHER ->
                        /\ response' = [code |-> 200,
                                        detail |-> "summary"]
                        /\ store_ops' = store_ops
                                          \o <<"query_transcription",
                                               "insert_summary">>
                        /\ next_id' = [next_id EXCEPT
                                          !.summaries = @ + 1]
                        /\ summaries' = summaries \cup {db_summary}
    /\ UNCHANGED <<idle_frame, users, audio_files,
                   ai_models, transcriptions, translations, disk>>

\* the members of the Status enumeration of audio_files.status
FileStatus == {"uploaded", "processing", "done", "error"}

\* the values of the field status of the bodies of create_audio_file
StatusValues == {"uploaded", "finished"}

\* POST /api/v1/audio-files/
CreateAudioFile ==
    /\ pc = "serving"
    /\ requests < MaxUpdates
    /\ requests' = requests + 1
    /\ before' = Snapshot
    /\ \E user_id \in UserIds, status \in StatusValues,
          outcome \in StoreOutcomes :
          LET found == {u \in users : u.id = user_id}
              db_audio_file ==
                  [id |-> next_id.audio_files, user_id |-> user_id,
                   filename |-> Filename(next_id.audio_files)]
          IN  /\ request' = [handler |-> "create_audio_file",
                             id |-> user_id, name |-> status]
              /\ last_outcome' = outcome
              /\ CASE outcome = "error" ->
                        /\ response' = [code |-> 500, detail |-> "store"]
                        /\ store_ops' = Append(store_ops, "query_user")
                        /\ UNCHANGED <<audio_files, next_id>>
                   [] found = {} ->
                        /\ response' = [code |-> 404, detail |-> "user"]
                        /\ store_ops' = Append(store_ops, "query_user")
                        /\ UNCHANGED <<audio_files, next_id>>
                   [] status \notin FileStatus ->
                        /\ response' = [code |-> 500,
                                        detail |-> "value_error"]
                        /\ store_ops' = Append(store_ops, "query_user")
                        /\ UNCHANGED <<audio_files, next_id>>
                   [] insert_result("audio_files") = "type_error" ->
                        /\ response' = [code |-> 500,
                                        detail |-> "type_error"]
                        /\ store_ops' = Append(store_ops, "query_user")
                        /\ UNCHANGED <<audio_files, next_id>>
                   [] insert_result("audio_files") = "not_null" ->
                        /\ response' = [code |-> 500, detail |-> "not_null"]
                        /\ store_ops' = store_ops
                                          \o <<"query_user",
                                               "insert_audio_file">>
                        /\ next_id' = [next_id EXCEPT
                                          !.audio_files = @ + 1]
                        /\ UNCHANGED audio_files
                   [] OTHER ->
                        /\ response' = [code |-> 200,
                                        detail |-> "audio_file"]
                        /\ store_ops' = store_ops
                                          \o <<"query_user",
                                               "insert_audio_file">>
                        /\ next_id' = [next_id EXCEPT
                                          !.audio_files = @ + 1]
                        /\ audio_files' = audio_files \cup {db_audio_file}
    /\ UNCHANGED <<idle_frame, users, ai_models, transcriptions,
                   translations, summaries, disk>>

\* the usernames of the bodies of create_user
NewUsernames == Usernames \cup {"bob"}

\* create_user without the lookup by username
CreateUser_NoLookup ==
    /\ pc = "serving"
    /\ requests < MaxUpdates
    /\ requests' = requests + 1
    /\ before' = Snapshot
    /\ \E username \in NewUsernames, is_admin \in BOOLEAN,
          outcome \in StoreOutcomes \cup {"commit_error"} :
          LET db_user == [id |-> NextUserId, username |-> username,
                          password_hash |-> hash_password("secret"),
                          is_admin |-> is_admin]
              rows == users \cup {db_user}
          IN  /\ request' = [handler |-> "create_user", id |-> 0,
                             name |-> username]
              /\ last_outcome' = outcome
              /\ CASE outcome = "error" ->
                        /\ response' = [code |-> 500, detail |-> "store"]
                        /\ store_ops' = Append(store_ops, "query_user")
                        /\ UNCHANGED users
                   [] outcome = "commit_error" ->
                        /\ response' = [code |-> 500, detail |-> "store"]
                        /\ store_ops' = store_ops
                                          \o <<"query_user", "insert_user">>
                        /\ UNCHANGED users
                   [] ~UsersConstraint(rows) ->
                        /\ response' = [code |-> 500, detail |-> "unique"]
                        /\ store_ops' = store_ops
                                          \o <<"query_user", "insert_user">>
                        /\ UNCHANGED users
                   [] OTHER ->
                        /\ response' = [code |-> 200, detail |-> "user"]
                        /\ store_ops' = store_ops
                                          \o <<"query_user", "insert_user">>
                        /\ users' = rows
    /\ UNCHANGED <<idle_frame, audio_files, ai_models,
                   transcriptions, translations, summaries, next_id, disk>>

\* POST /api/v1/users/
CreateUser ==
    /\ pc = "serving"
    /\ requests < MaxUpdates
    /\ requests' = requests + 1
    /\ before' = Snapshot
    /\ \E username \in NewUsernames, is_admin \in BOOLEAN,
          outcome \in StoreOutcomes \cup {"commit_error"} :
          LET db_user == [id |-> NextUserId, username |-> username,
                          password_hash |-> hash_password("secret"),
                          is_admin |-> is_admin]
              rows == users \cup {db_user}
          IN  /\ request' = [handler |-> "create_user", id |-> 0,
                             name |-> username]
              /\ last_outcome' = outcome
              /\ CASE outcome = "error" ->
                        /\ response' = [code |-> 500, detail |-> "store"]
                        /\ store_ops' = Append(store_ops, "query_user")
                        /\ UNCHANGED users
                   [] \E u \in users : u.username = username ->
                        /\ response' = [code |-> 400, detail |-> "exists"]
                        /\ store_ops' = Append(store_ops, "query_user")
                        /\ UNCHANGED users
                   [] outcome = "commit_error" ->
                        /\ response' = [code |-> 500, detail |-> "store"]
                        /\ store_ops' = store_ops
                                          \o <<"query_user", "insert_user">>
                        /\ UNCHANGED users
                   [] ~UsersConstraint(rows) ->
                        /\ response' = [code |-> 500, detail |-> "unique"]
                        /\ store_ops' = store_ops
                                          \o <<"query_user", "insert_user">>
                        /\ UNCHANGED users
                   [] OTHER ->
                        /\ response' = [code |-> 200, detail |-> "user"]
                        /\ store_ops' = store_ops
                                          \o <<"query_user", "insert_user">>
                        /\ users' = rows
    /\ UNCHANGED <<idle_frame, audio_files, ai_models,
                   transcriptions, translations, summaries, next_id, disk>>

\* the members of the Operation enumeration of the operation column
Operation == {"transcription", "translation", "summary"}

\* a schema that takes any string for the operation
OperationLiteral_AnyString ==
    {"transcription", "translation", "summary", "", "transcribe",
     "TRANSLATION"}

\* the values the field operation of AIModelCreate admits
OperationLiteral == {"transcription", "translation", "summary"}

\* the values of the field operation of the bodies received
OperationValues == Operation \cup {"", "transcribe", "TRANSLATION"}

\* the registration of an AI model: the body is validated as AIModelCreate,
\* then the row is added and committed; the operation column converts only
\* members of Operation
RegisterAIModel ==
    /\ pc = "serving"
    /\ requests < MaxUpdates
    /\ requests' = requests + 1
    /\ before' = Snapshot
    /\ \E operation \in OperationValues,
          outcome \in StoreOutcomes \cup {"commit_error"} :
          LET db_model == [id |-> next_id.ai_models,
                           operation |-> operation]
          IN  /\ request' = [handler |-> "register_ai_model", id |-> 0,
                             name |-> operation]
              /\ CASE operation \notin OperationLiteral ->
                        /\ response' = [code |-> 422,
                                        detail |-> "operation"]
                        /\ UNCHANGED <<last_outcome, store_ops, ai_models,
                                       next_id>>
                   [] operation \notin Operation ->
                        /\ response' = [code |-> 500, detail |-> "enum"]
                        /\ UNCHANGED <<last_outcome, store_ops, ai_models,
                                       next_id>>
                   [] outcome # "ok" ->
                        /\ response' = [code |-> 500, detail |-> "store"]
                        /\ last_outcome' = outcome
                        /\ store_ops' = Append(store_ops, "insert_ai_model")
                        /\ UNCHANGED <<ai_models, next_id>>
                   [] OTHER ->
                        /\ response' = [code |-> 200,
                                        detail |-> "registered"]
                        /\ last_outcome' = outcome
                        /\ store_ops' = Append(store_ops, "insert_ai_model")
                        /\ next_id' = [next_id EXCEPT !.ai_models = @ + 1]
                        /\ ai_models' = ai_models \cup {db_model}
    /\ UNCHANGED <<idle_frame, users, audio_files,
                   transcriptions, translations, summaries, disk>>

\* the requests of a served store: both users are registered, every stored
\* audio file is on disk and each derived table holds at most one row
InitStore ==
    /\ InitCrud
    /\ users = {first_superadmin, second_user}
    /\ disk = {a.filename : a \in audio_files}
    /\ Cardinality(transcriptions) <= 1
    /\ Cardinality(translations) <= 1
    /\ Cardinality(summaries) <= 1

NextStore ==
    \/ DeleteAudioFile
    \/ DeleteUser
    \/ DeleteAIModel
    \/ CreateTranscription
    \/ CreateTranslation
    \/ CreateSummary
    \/ CreateAudioFile
    \/ CreateUser
    \/ UpdateUser
    \/ RegisterAIModel

SpecStore == InitStore /\ [][NextStore]_vars

(***************************************************************************)
(* Properties of the create operations                                     *)
(***************************************************************************)
\* C21: a create_transcription request whose audio_file_id is the id of no
\* stored AudioFile, on a store that answers the lookup, is answered with
\* 404 and the Transcription records are the ones that were there before.
C21_MissingAudioFile ==
    (/\ request.handler = "create_transcription"
     /\ request.id \notin Ids(before.audio_files)
     /\ last_outcome = "ok")
    => /\ response = [code |-> 404, detail |-> "audio_file"]
       /\ transcriptions = before.transcriptions

C21_Witness ==
    /\ request.handler = "create_transcription"
    /\ request.id \notin Ids(before.audio_files)
    /\ before.audio_files # {}
    /\ response.code = 404
    /\ transcriptions # {}

\* the requests that create a job record
CreateHandlers ==
    {"create_transcription", "create_translation", "create_summary"}

\* C22: a request that creates a Transcription, a Translation or a Summary
\* on a store that answers either inserts a record whose parent and AIModel
\* are stored records, or is answered with 404 and inserts nothing.
C22_ForeignKeysValidated ==
    (request.handler \in CreateHandlers /\ last_outcome = "ok")
    => \/ /\ response.code = 200
          /\ \A t \in transcriptions \ before.transcriptions :
                /\ t.audio_file_id \in Ids(before.audio_files)
                /\ t.ai_model_id \in Ids(before.ai_models)
          /\ \A r \in translations \ before.translations :
                /\ r.transcription_id \in Ids(before.transcriptions)
                /\ r.ai_model_id \in Ids(before.ai_models)
          /\ \A x \in summaries \ before.summaries :
                /\ x.translation_id \in Ids(before.translations)
                /\ x.ai_model_id \in Ids(before.ai_models)
       \/ /\ response.code = 404
          /\ transcriptions = before.transcriptions
          /\ translations = before.translations
          /\ summaries = before.summaries

\* C23: a create_user request whose username a stored user holds, on a
\* store that answers the lookup, is answered with 400 and leaves the users
\* as they were; and whatever requests were served, no two stored users
\* share a username.
C23_UsernameUnique ==
    /\ UsersConstraint(users)
    /\ (/\ request.handler = "create_user"
        /\ request.name \in {u.username : u \in before.users}
        /\ last_outcome = "ok")
       => /\ response = [code |-> 400, detail |-> "exists"]
          /\ users = before.users

C23_Witness ==
    /\ request.handler = "create_user"
    /\ request.name \in {u.username : u \in before.users}
    /\ response.code = 400
    /\ \E u \in users : u.username = "bob"

\* C24: a delete of a stored AudioFile on a store that answers succeeds and
\* removes the record, whether the file is on disk or not and whether its
\* removal from disk fails or not.
C24_BestEffortRemoval ==
    (/\ request.handler = "delete_audio_file"
     /\ request.id \in Ids(before.audio_files)
     /\ last_outcome = "ok")
    => /\ response = [code |-> 200, detail |-> "audio_file"]
       /\ request.id \notin Ids(audio_files)

Bases(exception) ==
    IF exception \in {"IntegrityError", "OperationalError"}
    THEN {exception, "DBAPIError", "SQLAlchemyError", "Exception"}
    ELSE {exception, "Exception"}

\* check_and_create_superadmin without except clauses
superadmin_except_None == {}

\* the except clauses of check_and_create_superadmin
superadmin_except == {"SQLAlchemyError", "Exception"}

\* create_user has no except clause
create_user_except == {}

\* what a call makes of an exception: the result of its except clause, or
\* the exception leaves the call
caught(exception, clauses, result) ==
    IF Bases(exception) \cap clauses # {}
    THEN result
    ELSE [status |-> "raised", exception |-> exception]

\* the result of the except clauses of check_and_create_superadmin
superadmin_failed ==
    [status |-> "unhealthy", superadmin_exists |-> FALSE,
     action_taken |-> "failed", error |-> TRUE]

\* a process receives create_user and runs its lookup
CreateUserLookup ==
    /\ pc = "serving"
    /\ \E w \in Workers, username \in NewUsernames,
          outcome \in StoreOutcomes :
          LET found == {u \in users : u.username = username}
              call == [Idle EXCEPT !.handler = "create_user",
                                   !.name = username,
                                   !.seen = IF outcome = "ok" THEN found
                                            ELSE {},
                                   !.outcome = outcome]
          IN  /\ workers[w].pc = "idle"
              /\ last_outcome' = outcome
              /\ store_ops' = Append(store_ops, "query_user")
              /\ workers' =
                    [workers EXCEPT ![w] =
                        CASE outcome = "error" ->
                                [call EXCEPT
                                    !.pc = "done",
                                    !.result =
                                        caught("OperationalError",
                                               create_user_except,
                                               [status |-> "none"])]
                          [] found # {} ->
                                [call EXCEPT
                                    !.pc = "done",
                                    !.result = [code |-> 400,
                                                detail |-> "exists"]]
                          [] OTHER -> [call EXCEPT !.pc = "looked"]]
    /\ UNCHANGED <<boot_vars, tables, users, sa_calls, requests, response,
                   crud_vars>>

\* the process adds the user and commits
CreateUserCommit ==
    /\ pc = "serving"
    /\ \E w \in Workers, outcome \in {"ok", "commit_error"} :
          LET call == workers[w]
              db_user == [id |-> NextUserId, username |-> call.name,
                          password_hash |-> hash_password("secret"),
                          is_admin |-> FALSE]
              rows == users \cup {db_user}
          IN  /\ call.pc = "looked"
              /\ call.handler = "create_user"
              /\ last_outcome' = outcome
              /\ store_ops' = Append(store_ops, "insert_user")
              /\ CASE outcome = "commit_error" ->
                        /\ workers' =
                              [workers EXCEPT ![w] =
                                  [call EXCEPT
                                      !.pc = "done",
                                      !.outcome = outcome,
                                      !.result =
                                          caught("OperationalError",
                                                 create_user_except,
                                                 [status |-> "none"])]]
                        /\ UNCHANGED users
                   [] ~UsersConstraint(rows) ->
                        /\ workers' =
                              [workers EXCEPT ![w] =
                                  [call EXCEPT
                                      !.pc = "done",
                                      !.result =
                                          caught("IntegrityError",
                                                 create_user_except,
                                                 [status |-> "none"])]]
                        /\ UNCHANGED users
                   [] OTHER ->
                        /\ workers' =
                              [workers EXCEPT ![w] =
                                  [call EXCEPT
                                      !.pc = "done",
                                      !.result = [code |-> 200,
                                                  detail |-> "user"]]]
                        /\ users' = rows
    /\ UNCHANGED <<boot_vars, tables, sa_calls, requests, response,
                   crud_vars>>

\* a process enters check_and_create_superadmin and runs its lookup
SuperadminLookup ==
    /\ pc = "serving"
    /\ \E w \in Workers, outcome \in StoreOutcomes :
          LET call == [Idle EXCEPT
                          !.handler = "check_and_create_superadmin",
                          !.name = "superadmin",
                          !.seen = IF outcome = "ok" THEN SuperadminRows
                                   ELSE {},
                          !.outcome = outcome]
          IN  /\ workers[w].pc = "idle"
              /\ last_outcome' = outcome
              /\ store_ops' = Append(store_ops, "query_user")
              /\ workers' =
                    [workers EXCEPT ![w] =
                        CASE outcome = "error" ->
                                [call EXCEPT
                                    !.pc = "done",
                                    !.result =
                                        caught("OperationalError",
                                               superadmin_except,
                                               superadmin_failed)]
                          [] SuperadminRows # {} ->
                                [call EXCEPT
                                    !.pc = "done",
                                    !.result =
                                        [status |-> "healthy",
                                         superadmin_exists |-> TRUE,
                                         action_taken |-> "none",
                                         error |-> FALSE]]
                          [] OTHER -> [call EXCEPT !.pc = "looked"]]
    /\ UNCHANGED <<boot_vars, tables, users, sa_calls, requests, response,
                   crud_vars>>

\* the process adds the superadmin and commits
SuperadminCommit ==
    /\ pc = "serving"
    /\ \E w \in Workers, outcome \in {"ok", "commit_error"} :
          LET call == workers[w]
              rows == users \cup {new_superadmin}
          IN  /\ call.pc = "looked"
              /\ call.handler = "check_and_create_superadmin"
              /\ last_outcome' = outcome
              /\ store_ops' = Append(store_ops, "insert_user")
              /\ CASE outcome = "commit_error" ->
                        /\ workers' =
                              [workers EXCEPT ![w] =
                                  [call EXCEPT
                                      !.pc = "done",
                                      !.outcome = outcome,
                                      !.result =
                                          caught("OperationalError",
                                                 superadmin_except,
                                                 superadmin_failed)]]
                        /\ UNCHANGED users
                   [] ~UsersConstraint(rows) ->
                        /\ workers' =
                              [workers EXCEPT ![w] =
                                  [call EXCEPT
                                      !.pc = "done",
                                      !.result =
                                          caught("IntegrityError",
                                                 superadmin_except,
                                                 superadmin_failed)]]
                        /\ UNCHANGED users
                   [] OTHER ->
                        /\ workers' =
                              [workers EXCEPT ![w] =
                                  [call EXCEPT
                                      !.pc = "done",
                                      !.result =
                                          [status |-> "healthy",
                                           superadmin_exists |-> FALSE,
                                           action_taken |-> "created",
                                           error |-> FALSE]]]
                        /\ users' = rows
    /\ UNCHANGED <<boot_vars, tables, sa_calls, requests, response,
                   crud_vars>>

\* the processes serve a store on which users were created and deleted
\* since start-up
InitRace ==
    /\ Serving
    /\ NoRows
    /\ users \in SUBSET {first_superadmin, second_user}

NextRace ==
    \/ CreateUserLookup
    \/ CreateUserCommit
    \/ SuperadminLookup
    \/ SuperadminCommit

SpecRace == InitRace /\ [][NextRace]_vars

\* the calls of a handler that have returned or raised
Done(handler) ==
    {w \in Workers : workers[w].pc = "done" /\ workers[w].handler = handler}

\* C26: when two concurrent create_user requests with one username have
\* both ended and the store failed in neither, exactly one user of that
\* username is stored, at most one of the two created it, and every request
\* that did not create it was answered with 400.
C26_ConcurrentCreate ==
    \A v, w \in Done("create_user") :
        (/\ v # w
         /\ workers[v].name = workers[w].name
         /\ workers[v].outcome = "ok"
         /\ workers[w].outcome = "ok")
        => /\ Cardinality({u \in users :
                              u.username = workers[v].name}) = 1
           /\ workers[v].result
                 \in {[code |-> 200, detail |-> "user"],
                      [code |-> 400, detail |-> "exists"]}
           /\ workers[v].result = [code |-> 200, detail |-> "user"]
                 => workers[w].result = [code |-> 400, detail |-> "exists"]

\* C28: however two concurrent calls of check_and_create_superadmin
\* interleave, at most one user named superadmin is stored, and each call
\* that has ended returned a result with a status; none raised.
C28_ConcurrentSuperadmin ==
    /\ Cardinality({u \in users : u.username = "superadmin"}) <= 1
    /\ \A w \in Done("check_and_create_superadmin") :
          /\ workers[w].result.status \in {"healthy", "unhealthy"}
          /\ workers[w].result.action_taken \in {"none", "created", "failed"}

C28_Witness ==
    \E v, w \in Done("check_and_create_superadmin") :
        /\ workers[v].seen = {}
        /\ workers[w].seen = {}
        /\ workers[v].result.action_taken = "created"
        /\ workers[w].result.action_taken = "failed"
        /\ workers[w].outcome = "ok"
        /\ Cardinality(users) = 2

\* C27: an update_user request that gives a stored user the username of
\* another stored user, on a store that answers, is answered with 400 and
\* leaves the users as they were.
C27_UpdateConflict ==
    (/\ request.handler = "update_user"
     /\ request.id \in Ids(before.users)
     /\ \E u \in before.users :
           u.id # request.id /\ u.username = request.name
     /\ last_outcome = "ok")
    => /\ response.code = 400
       /\ users = before.users

(***************************************************************************)
(* One call of ensure_database_ready, run to its end                       *)
(***************************************************************************)
\* start-up up to the return of ensure_database_ready
NextReady ==
    \/ StartMain
    \/ EnvStage
    \/ SettingsStage
    \/ DbConnection
    \/ DbTables
    \/ DbMigrate
    \/ DbRecheck

\* the calls are sequential code: every check and the migration subprocess
\* return or raise, so the step that is enabled is taken
SpecReady == Init /\ [][NextReady]_vars /\ WF_vars(NextReady)

\* the invocations of run_database_migrations so far
Migrations == {i \in DOMAIN store_ops : store_ops[i] = "migrate"}

\* C29: a call of ensure_database_ready returns; it invokes
\* run_database_migrations at most once, and only after a healthy connection
\* check and a first tables check that returned warning with tables
\* missing; after a tables check that failed with a store error the result
\* is unhealthy and no migration was invoked.
C29_MigratesAtMostOnce ==
    /\ (pc = "db_connect") ~> (pc = "ear_db")
    /\ [](/\ Cardinality(Migrations) <= 1
          /\ Migrations # {}
             => /\ connection_check.status = "healthy"
                /\ tables_check.status = "warning"
                /\ tables_check.missing_tables # <<>>
          /\ (pc = "ear_db" /\ tables_check.status = "unhealthy")
             => /\ db_ready_result.status = "unhealthy"
                /\ Migrations = {})

C29_Witness ==
    /\ pc = "ear_db"
    /\ Cardinality(Migrations) = 1
    /\ final_check.status = "unhealthy"
    /\ db_ready_result.status = "unhealthy"

====
